---- MODULE Spec2Model ----
(***************************************************************************)
(* Batch production report of perfugo (package handlers): the request      *)
(* handler GenerateBatchProductionReport, buildBatchProductionReportData,  *)
(* computeFormulaTotal, accumulateFormulaIngredients and the sort policy,  *)
(* over a store of formulas, composition rows and aroma chemicals.         *)
(*                                                                         *)
(* float64 values are modelled as exact fractions <<n, d>> in lowest terms *)
(* (d > 0); d = 0 stands for the non-finite values (+Inf: n > 0, -Inf:     *)
(* n < 0, NaN: n = 0). Rounding is not modelled. Strings are sequences of  *)
(* byte values so that trimming, case folding and byte-wise comparison are *)
(* computed as the Go library computes them.                               *)
(***************************************************************************)
EXTENDS Integers, Sequences, FiniteSets, TLC

----------------------------------------------------------------------------
(* bounds of the model *)

MaxRows == 3      \* rows of a store of the graph family
MaxAmount == 2    \* largest declared amount of the quantity families
MaxQ == 2         \* largest whole target quantity requested
MaxDay == 2       \* days the clock can show

----------------------------------------------------------------------------
(* float64 as fractions *)

Abs(x) == IF x < 0 THEN -x ELSE x

RECURSIVE GCD(_, _)
GCD(a, b) == IF b = 0 THEN Abs(a) ELSE GCD(b, a % b)

Frac(n, d) ==
    IF d = 0 THEN <<(IF n > 0 THEN 1 ELSE IF n < 0 THEN -1 ELSE 0), 0>>
    ELSE LET s == IF d < 0 THEN -1 ELSE 1
             g == GCD(Abs(n), Abs(d))
         IN  <<(s * n) \div g, (s * d) \div g>>

Whole(n) == <<n, 1>>
Zero == Whole(0)
NaN == <<0, 0>>
PosInf == <<1, 0>>

IsFinite(x) == x[2] # 0

\* a + b; NaN for NaN operands and for infinities of opposite sign
FAdd(a, b) ==
    IF ~IsFinite(a) \/ ~IsFinite(b)
    THEN (IF a = NaN \/ b = NaN THEN NaN
          ELSE IF ~IsFinite(a) /\ ~IsFinite(b) /\ a # b THEN NaN
          ELSE IF ~IsFinite(a) THEN a ELSE b)
    ELSE LET g == GCD(a[2], b[2])
         IN  Frac(a[1] * (b[2] \div g) + b[1] * (a[2] \div g), (a[2] \div g) * b[2])

FNeg(a) == <<-a[1], a[2]>>
FSub(a, b) == FAdd(a, FNeg(b))

\* a * b; a non-finite operand times a positive finite one keeps its kind
FMul(a, b) ==
    IF ~IsFinite(a) THEN (IF b[1] > 0 THEN a ELSE IF b[1] < 0 THEN FNeg(a) ELSE NaN)
    ELSE IF ~IsFinite(b) THEN (IF a[1] > 0 THEN b ELSE IF a[1] < 0 THEN FNeg(b) ELSE NaN)
    ELSE LET g1 == GCD(Abs(a[1]), b[2])
             g2 == GCD(Abs(b[1]), a[2])
         IN  Frac((a[1] \div g1) * (b[1] \div g2), (a[2] \div g2) * (b[2] \div g1))

\* a / b for a finite divisor b; x / 0 is an infinity, or NaN for x = 0
FDiv(a, b) == FMul(a, Frac(b[2], b[1]))

\* a < b, a <= b as the float comparison: false whenever an operand is NaN
FLt(a, b) ==
    IF a = NaN \/ b = NaN THEN FALSE
    ELSE IF ~IsFinite(a) THEN a[1] < 0 /\ b # a
    ELSE IF ~IsFinite(b) THEN b[1] > 0
    ELSE a[1] * b[2] < b[1] * a[2]

FLe(a, b) == IF a = NaN \/ b = NaN THEN FALSE ELSE a = b \/ FLt(a, b)
FGt(a, b) == FLt(b, a)

FAbs(a) == <<Abs(a[1]), a[2]>>

----------------------------------------------------------------------------
(* strings as byte sequences *)

IsSpace(c) == c \in {9, 10, 11, 12, 13, 32}

RECURSIVE TrimLeft(_)
TrimLeft(s) == IF s # <<>> /\ IsSpace(Head(s)) THEN TrimLeft(Tail(s)) ELSE s

RECURSIVE TrimRight(_)
TrimRight(s) ==
    IF s # <<>> /\ IsSpace(s[Len(s)]) THEN TrimRight(SubSeq(s, 1, Len(s) - 1)) ELSE s

\* strings.TrimSpace
TrimSpace(s) == TrimRight(TrimLeft(s))

\* strings.ToLower on ASCII
ToLower(s) == [i \in 1..Len(s) |-> IF s[i] >= 65 /\ s[i] <= 90 THEN s[i] + 32 ELSE s[i]]

\* strings.ReplaceAll(s, old, new) for one-byte old and new
ReplaceAll(s, old, new) == [i \in 1..Len(s) |-> IF s[i] = old THEN new ELSE s[i]]

\* Go's s < t on strings: byte-wise lexicographic
RECURSIVE StrLess(_, _)
StrLess(s, t) ==
    IF t = <<>> THEN FALSE
    ELSE IF s = <<>> THEN TRUE
    ELSE IF Head(s) # Head(t) THEN Head(s) < Head(t)
    ELSE StrLess(Tail(s), Tail(t))

\* string literals used by the code
S_g == <<103>>
S_mg == <<109, 103>>
S_kg == <<107, 103>>
S_ml == <<109, 108>>
S_base == <<98, 97, 115, 101>>
S_heart == <<104, 101, 97, 114, 116>>
S_top == <<116, 111, 112>>
S_all == <<97, 108, 108>>
S_dash == <<45>>
S_heart_base == S_heart \o S_dash \o S_base
S_base_heart == S_base \o S_dash \o S_heart
S_top_heart == S_top \o S_dash \o S_heart
S_heart_top == S_heart \o S_dash \o S_top

----------------------------------------------------------------------------
(* Go maps: a function on the keys present *)

EmptyMap == [k \in {} |-> 0]
HasKey(m, k) == k \in DOMAIN m
MapPut(m, k, v) == [x \in (DOMAIN m) \cup {k} |-> IF x = k THEN v ELSE m[x]]
\* m[k] on a map[uint]bool: false for a missing key
Marked(m, k) == HasKey(m, k) /\ m[k]
\* the ghost count of m for id, raised by one when the rows were summed
Counted(m, id, summed) ==
    IF summed THEN MapPut(m, id, (IF HasKey(m, id) THEN m[id] ELSE 0) + 1) ELSE m

\* pointer fields: <<>> is nil, <<v>> points at v
Nil == <<>>
Ptr(v) == <<v>>

----------------------------------------------------------------------------
(* package pages: pyramid positions *)

allowedPyramidPositions == <<S_top, S_top_heart, S_heart, S_heart_base, S_base, S_all>>

\* NormalizePyramidPosition: <<canonical value, ok>>
NormalizePyramidPosition(value) ==
    LET trimmed == TrimSpace(value)
        normalized == ReplaceAll(ReplaceAll(ToLower(trimmed), 95, 45), 32, 45)
    IN  IF trimmed = <<>> THEN <<<<>>, TRUE>>
        ELSE IF \E i \in 1..Len(allowedPyramidPositions) :
                    allowedPyramidPositions[i] = normalized
             THEN <<normalized, TRUE>>
             ELSE <<<<>>, FALSE>>

CanonicalPyramidPosition(value) ==
    LET r == NormalizePyramidPosition(value) IN IF r[2] THEN r[1] ELSE <<>>

\* PyramidPositionLabel: the em dash for no position, else each dash-separated
\* part with its first letter in upper case
PyramidPositionLabel(value) ==
    LET normalized == NormalizePyramidPosition(value)[1]
    IN  IF normalized = <<>> THEN <<226, 128, 148>>
        ELSE [i \in 1..Len(normalized) |->
                IF (i = 1 \/ normalized[i - 1] = 45)
                   /\ normalized[i] >= 97 /\ normalized[i] <= 122
                THEN normalized[i] - 32 ELSE normalized[i]]

----------------------------------------------------------------------------
(* package handlers: helpers of the batch report *)

errNil == "nil"
errBatchFormulaNotFound == "reports: formula not found"
errBatchInvalidQuantity == "reports: invalid target quantity"
errBatchEmptyComposition == "reports: formula has no ingredients"
errBatchCircularReference == "reports: circular dependency detected"
ErrRecordNotFound == "record not found"

pyramidRank(value) ==
    IF value = S_base THEN 0
    ELSE IF value \in {S_heart_base, S_base_heart} THEN 1
    ELSE IF value = S_heart THEN 2
    ELSE IF value \in {S_top_heart, S_heart_top} THEN 3
    ELSE IF value = S_top THEN 4
    ELSE 5

\* normalizeAmount on the unit as stored, without strings.TrimSpace
normalizeAmountUntrimmed(amount, unit) ==
    LET u == ToLower(unit)
    IN  IF u = S_mg THEN FDiv(amount, Whole(1000))
        ELSE IF u = S_kg THEN FMul(amount, Whole(1000))
        ELSE amount

normalizeAmount(amount, unit) ==
    LET u == ToLower(TrimSpace(unit))
    IN  IF u = S_mg THEN FDiv(amount, Whole(1000))
        ELSE IF u = S_kg THEN FMul(amount, Whole(1000))
        ELSE amount

epsilonInverse == 1000000

\* math.Abs(a-b) <= 1e-6, on finite values
almostEqual(a, b) ==
    LET d == FAbs(FSub(a, b)) IN d[1] <= d[2] \div epsilonInverse

\* the comparison function handed to sort.SliceStable
ingredientLess(x, y) ==
    LET pi == pyramidRank(x.Pyramid)
        pj == pyramidRank(y.Pyramid)
    IN  IF pi # pj THEN pi < pj
        ELSE IF ~almostEqual(x.FinalQuantity, y.FinalQuantity)
             THEN FGt(x.FinalQuantity, y.FinalQuantity)
             ELSE StrLess(ToLower(x.IngredientName), ToLower(y.IngredientName))

\* sort.SliceStable on fewer than 20 elements is one insertion sort:
\* for i := 1; i < n; i++ { for j := i; j > 0 && less(j, j-1); j-- { swap } }
RECURSIVE insertDown(_, _)
insertDown(items, j) ==
    IF j > 1 /\ ingredientLess(items[j], items[j - 1])
    THEN insertDown([items EXCEPT ![j] = items[j - 1], ![j - 1] = items[j]], j - 1)
    ELSE items

RECURSIVE insertionSortFrom(_, _)
insertionSortFrom(items, i) ==
    IF i > Len(items) THEN items ELSE insertionSortFrom(insertDown(items, i), i + 1)

sortBatchProductionIngredients(items) == insertionSortFrom(items, 2)

\* sumAmounts over the rows that name a chemical only
RECURSIVE sumAmountsOfChemicals(_, _, _)
sumAmountsOfChemicals(rows, i, total) ==
    IF i > Len(rows) THEN total
    ELSE sumAmountsOfChemicals(rows, i + 1,
            IF rows[i].AromaChemicalID = Nil THEN total
            ELSE FAdd(total, normalizeAmount(rows[i].Amount, rows[i].Unit)))

\* total := 0.0; for _, ing := range ingredients { total += normalizeAmount(...) }
RECURSIVE sumAmounts(_, _, _)
sumAmounts(rows, i, total) ==
    IF i > Len(rows) THEN total
    ELSE sumAmounts(rows, i + 1, FAdd(total, normalizeAmount(rows[i].Amount, rows[i].Unit)))

\* source[formulaID] on the map built from the loaded rows: nil for no rows
RowsOf(source, formulaID) == IF HasKey(source, formulaID) THEN source[formulaID] ELSE <<>>

\* computeFormulaTotal without the lookup in the memo
computeFormulaTotalUnmemoized(formulaID, source, memo, stack) ==
    IF Marked(stack, formulaID)
    THEN [value |-> Zero, err |-> errBatchCircularReference, memo |-> memo, stack |-> stack,
          summed |-> FALSE]
    ELSE LET rows == RowsOf(source, formulaID)
             total == sumAmounts(rows, 1, Zero)
         IN  IF Len(rows) = 0
             THEN [value |-> Zero, err |-> errBatchEmptyComposition, memo |-> memo,
                   stack |-> MapPut(stack, formulaID, FALSE), summed |-> FALSE]
             ELSE [value |-> total, err |-> errNil,
                   memo |-> MapPut(memo, formulaID, total),
                   stack |-> MapPut(stack, formulaID, FALSE), summed |-> TRUE]

\* computeFormulaTotal without its check for a formula that has no rows
computeFormulaTotalOfNothing(formulaID, source, memo, stack) ==
    IF HasKey(memo, formulaID)
    THEN [value |-> memo[formulaID], err |-> errNil, memo |-> memo, stack |-> stack,
          summed |-> FALSE]
    ELSE IF Marked(stack, formulaID)
    THEN [value |-> Zero, err |-> errBatchCircularReference, memo |-> memo, stack |-> stack,
          summed |-> FALSE]
    ELSE LET total == sumAmounts(RowsOf(source, formulaID), 1, Zero)
         IN  [value |-> total, err |-> errNil,
              memo |-> MapPut(memo, formulaID, total),
              stack |-> MapPut(stack, formulaID, FALSE), summed |-> TRUE]

\* computeFormulaTotal that returns without clearing its in-progress mark
computeFormulaTotalLeavesMark(formulaID, source, memo, stack) ==
    IF HasKey(memo, formulaID)
    THEN [value |-> memo[formulaID], err |-> errNil, memo |-> memo, stack |-> stack,
          summed |-> FALSE]
    ELSE IF Marked(stack, formulaID)
    THEN [value |-> Zero, err |-> errBatchCircularReference, memo |-> memo, stack |-> stack,
          summed |-> FALSE]
    ELSE LET rows == RowsOf(source, formulaID)
             total == sumAmounts(rows, 1, Zero)
         IN  IF Len(rows) = 0
             THEN [value |-> Zero, err |-> errBatchEmptyComposition, memo |-> memo,
                   stack |-> MapPut(stack, formulaID, TRUE), summed |-> FALSE]
             ELSE [value |-> total, err |-> errNil,
                   memo |-> MapPut(memo, formulaID, total),
                   stack |-> MapPut(stack, formulaID, TRUE), summed |-> TRUE]

\* computeFormulaTotal: the value, the error and the two maps as it leaves them;
\* summed tells whether the loop over the rows ran
computeFormulaTotal(formulaID, source, memo, stack) ==
    IF HasKey(memo, formulaID)
    THEN [value |-> memo[formulaID], err |-> errNil, memo |-> memo, stack |-> stack,
          summed |-> FALSE]
    ELSE IF Marked(stack, formulaID)
    THEN [value |-> Zero, err |-> errBatchCircularReference, memo |-> memo, stack |-> stack,
          summed |-> FALSE]
    ELSE LET rows == RowsOf(source, formulaID)
             total == sumAmounts(rows, 1, Zero)
         IN  IF Len(rows) = 0
             THEN [value |-> Zero, err |-> errBatchEmptyComposition, memo |-> memo,
                   stack |-> MapPut(stack, formulaID, FALSE), summed |-> FALSE]
             ELSE [value |-> total, err |-> errNil,
                   memo |-> MapPut(memo, formulaID, total),
                   stack |-> MapPut(stack, formulaID, FALSE), summed |-> TRUE]

----------------------------------------------------------------------------
(* state *)

VARIABLES
    formulas,       \* table formulas: id -> [Name, Version], the rows not deleted
    chemicals,      \* table aroma_chemicals: id -> record, the rows not deleted
    ingredients,    \* table formula_ingredients, in the order a Find returns it
    pending,        \* requests not yet made
    caller,         \* who made the running call: "http" or "direct"
    pc,             \* position of the running call in buildBatchProductionReportData
    formulaID,      \* its arguments
    targetQuantity,
    formula,        \* the formula record it loaded
    byFormula,      \* its map formula id -> rows, with AromaChemical preloaded
    totalsMemo,     \* its memo of formula totals
    totalStack,     \* its in-progress marks of computeFormulaTotal
    baseTotal,
    accumulator,    \* its map chemical id -> [Chemical, BaseAmount]
    traversal,      \* its path guard of accumulateFormulaIngredients
    frames,         \* the activations of accumulateFormulaIngredients, innermost last
    reads,          \* ghost: formula id -> times computeFormulaTotal summed its rows
    history,        \* the calls and requests that have returned, oldest first
    check,          \* the running call of a helper function outside the report
    parked,         \* the call of a second goroutine while it is not scheduled
    interleaved,    \* ghost: the two goroutines were switched while both ran
    editor          \* the formula editor: id counters, requests between read and write, ghosts

store == <<formulas, chemicals, ingredients>>
locals == <<formula, byFormula, totalsMemo, totalStack, baseTotal, accumulator, traversal,
            frames, reads>>
workspace == <<check, parked, interleaved, editor>>
vars == <<formulas, chemicals, ingredients, pending, caller, pc, formulaID, targetQuantity,
          formula, byFormula, totalsMemo, totalStack, baseTotal, accumulator, traversal,
          frames, reads, history, check, parked, interleaved, editor>>

NoFormula == [Name |-> <<>>, Version |-> 0]

\* a report value that carries what the call had loaded and accumulated
PartialData ==
    [FormulaName |-> formula.Name, FormulaVersion |-> formula.Version, TargetQuantity |-> Zero,
     TargetUnit |-> <<>>, BaseBatchQuantity |-> Zero, BaseBatchUnit |-> <<>>,
     ScaleFactor |-> Zero, LotNumber |-> <<>>, RunDate |-> 0,
     Ingredients |-> IF accumulator = EmptyMap THEN <<>>
                     ELSE <<accumulator[CHOOSE k \in DOMAIN accumulator : TRUE]>>]

\* pages.BatchProductionReportData{}
EmptyData ==
    [FormulaName |-> <<>>, FormulaVersion |-> 0, TargetQuantity |-> Zero, TargetUnit |-> <<>>,
     BaseBatchQuantity |-> Zero, BaseBatchUnit |-> <<>>, ScaleFactor |-> Zero,
     LotNumber |-> <<>>, RunDate |-> 0, Ingredients |-> <<>>]

\* the status GenerateBatchProductionReport answers for the error of the call
StatusOf(err) ==
    IF err = errNil THEN 200
    ELSE IF err = errBatchFormulaNotFound THEN 404
    ELSE IF err \in {errBatchInvalidQuantity, errBatchEmptyComposition,
                     errBatchCircularReference} THEN 400
    ELSE 500

\* the call returns (data, err) from position at; an http caller answers with a status
Return(err, data, at) ==
    /\ history' = Append(history,
          [via |-> caller, formula_id |-> formulaID, target_quantity |-> targetQuantity,
           called |-> TRUE, err |-> err, data |-> data, at |-> at,
           status |-> IF caller = "http" THEN StatusOf(err) ELSE 0])
    /\ pc' = "idle"

\* entry of buildBatchProductionReportData: fresh locals
Enter(via, id, quantity) ==
    /\ caller' = via
    /\ formulaID' = id
    /\ targetQuantity' = quantity
    /\ pc' = "find"
    /\ formula' = NoFormula
    /\ byFormula' = EmptyMap
    /\ totalsMemo' = EmptyMap
    /\ totalStack' = EmptyMap
    /\ baseTotal' = Zero
    /\ accumulator' = EmptyMap
    /\ traversal' = EmptyMap
    /\ frames' = <<>>
    /\ reads' = EmptyMap

----------------------------------------------------------------------------
(* GenerateBatchProductionReport, up to its call of buildBatchProductionReportData *)

rejectsNegativeOnly(quantity) == FLt(quantity, Zero)

\* err != nil || targetQuantity <= 0, for a quantity that parsed
rejectsQuantity(quantity) == FLe(quantity, Zero)

GenerateBatchProductionReport ==
    /\ pc = "idle"
    /\ pending # <<>>
    /\ Head(pending).via = "http"
    /\ pending' = Tail(pending)
    /\ LET req == Head(pending)
       IN  IF req.formula_id = 0 \/ rejectsQuantity(req.target_quantity)
           THEN /\ history' = Append(history,
                      [via |-> "http", formula_id |-> req.formula_id,
                       target_quantity |-> req.target_quantity, called |-> FALSE,
                       err |-> errNil, data |-> EmptyData, at |-> "handler",
                       status |-> 400])
                /\ UNCHANGED <<caller, pc, formulaID, targetQuantity, locals>>
           ELSE /\ Enter("http", req.formula_id, req.target_quantity)
                /\ UNCHANGED history
    /\ UNCHANGED <<store, workspace>>

\* buildBatchProductionReportData called as the package's tests call it
DirectCall ==
    /\ pc = "idle"
    /\ pending # <<>>
    /\ Head(pending).via = "direct"
    /\ pending' = Tail(pending)
    /\ Enter("direct", Head(pending).formula_id, Head(pending).target_quantity)
    /\ UNCHANGED <<store, history, workspace>>

----------------------------------------------------------------------------
(* buildBatchProductionReportData *)

\* database.First(&formula, formulaID): <<found, record>>
firstFormulaOrBlank(table, id) ==
    IF HasKey(table, id) THEN <<TRUE, table[id]>> ELSE <<TRUE, NoFormula>>

firstFormula(table, id) ==
    IF HasKey(table, id) THEN <<TRUE, table[id]>> ELSE <<FALSE, NoFormula>>

\* the lookup of the target formula and its error
FindFormula ==
    /\ pc = "find"
    /\ IF firstFormula(formulas, formulaID)[1]
       THEN /\ formula' = firstFormula(formulas, formulaID)[2]
            /\ pc' = "load"
            /\ UNCHANGED history
       ELSE /\ Return(errBatchFormulaNotFound, EmptyData, "find")
            /\ UNCHANGED formula
    /\ UNCHANGED <<store, pending, caller, formulaID, targetQuantity, byFormula, totalsMemo,
                   totalStack, baseTotal, accumulator, traversal, frames, reads, workspace>>

\* Preload("AromaChemical"): the chemical of the row, nil when it is not found
Preloaded(row) ==
    [row EXCEPT !.AromaChemical =
        IF row.AromaChemicalID # Nil /\ HasKey(chemicals, row.AromaChemicalID[1])
        THEN Ptr(chemicals[row.AromaChemicalID[1]]) ELSE Nil]

\* groupRows keyed by the position of the row instead of its formula
RECURSIVE groupRowsByPosition(_, _, _)
groupRowsByPosition(rows, i, m) ==
    IF i > Len(rows) THEN m
    ELSE groupRowsByPosition(rows, i + 1, MapPut(m, i, Append(RowsOf(m, i), rows[i])))

RECURSIVE groupRows(_, _, _)
groupRows(rows, i, m) ==
    IF i > Len(rows) THEN m
    ELSE groupRows(rows, i + 1,
            MapPut(m, rows[i].FormulaID, Append(RowsOf(m, rows[i].FormulaID), rows[i])))

\* Find(&ingredients) with its preloads, the grouping by formula and the check
\* that the target has rows
LoadIngredients ==
    /\ pc = "load"
    /\ LET loaded == [i \in 1..Len(ingredients) |-> Preloaded(ingredients[i])]
           grouped == groupRows(loaded, 1, EmptyMap)
       IN  /\ byFormula' = grouped
           /\ IF Len(RowsOf(grouped, formulaID)) = 0
              THEN Return(errBatchEmptyComposition, EmptyData, "load")
              ELSE pc' = "total" /\ UNCHANGED history
    /\ UNCHANGED <<store, pending, caller, formulaID, targetQuantity, formula, totalsMemo,
                   totalStack, baseTotal, accumulator, traversal, frames, reads, workspace>>

baseTotalNegative(total) == FLt(total, Zero)

\* if baseTotal <= 0
baseTotalInvalid(total) == FLe(total, Zero)

\* baseTotal, err := computeTotals(formulaID) and the check baseTotal <= 0
ComputeBaseTotal ==
    /\ pc = "total"
    /\ LET r == computeFormulaTotal(formulaID, byFormula, totalsMemo, totalStack)
       IN  /\ totalsMemo' = r.memo
           /\ totalStack' = r.stack
           /\ reads' = Counted(reads, formulaID, r.summed)
           /\ IF r.err # errNil
              THEN Return(r.err, EmptyData, "total") /\ UNCHANGED <<baseTotal, frames>>
              ELSE IF baseTotalInvalid(r.value)
              THEN /\ Return(errBatchInvalidQuantity, EmptyData, "total")
                   /\ baseTotal' = r.value
                   /\ UNCHANGED frames
              ELSE /\ baseTotal' = r.value
                   /\ pc' = "accumulate"
                   /\ frames' = <<[formulaID |-> formulaID, factor |-> Whole(1), idx |-> 0]>>
                   /\ UNCHANGED history
    /\ UNCHANGED <<store, pending, caller, formulaID, targetQuantity, formula, byFormula,
                   accumulator, traversal, workspace>>

----------------------------------------------------------------------------
(* accumulateFormulaIngredients, one activation record per recursive call *)

Top == frames[Len(frames)]
Advance == [frames EXCEPT ![Len(frames)].idx = @ + 1]

\* what every step of the accumulation leaves alone
AccumulateFrame ==
    UNCHANGED <<store, pending, caller, formulaID, targetQuantity, formula, byFormula, baseTotal,
                workspace>>

pathGuardAbsent(path, id) == errNil

\* if path[formulaID] { return errBatchCircularReference }
pathGuard(path, id) == IF Marked(path, id) THEN errBatchCircularReference ELSE errNil

pathLeftMarked(path, id) == path

pathForgotten(path, id) == EmptyMap

\* path[formulaID] = false, after the last row
pathCleared(path, id) == MapPut(path, id, FALSE)

subFactorUndivided(amount, subTotal) == amount

\* subFactor := amount / subTotal
subFactor(amount, subTotal) == FDiv(amount, subTotal)

\* AccumulateEnter with a guard that returns nil on re-entry instead of the error
AccumulateEnterSkipsReentry ==
    /\ pc = "accumulate"
    /\ frames # <<>>
    /\ frames[Len(frames)].idx = 0
    /\ LET id == frames[Len(frames)].formulaID
       IN  IF Marked(traversal, id)
           THEN /\ frames' = SubSeq(frames, 1, Len(frames) - 1)
                /\ UNCHANGED <<traversal, pc, history>>
           ELSE IF Len(RowsOf(byFormula, id)) = 0
           THEN /\ traversal' = MapPut(traversal, id, FALSE)
                /\ Return(errBatchEmptyComposition, EmptyData, "accumulate")
                /\ frames' = <<>>
           ELSE /\ traversal' = MapPut(traversal, id, TRUE)
                /\ frames' = [frames EXCEPT ![Len(frames)].idx = 1]
                /\ UNCHANGED <<pc, history>>
    /\ UNCHANGED <<totalsMemo, totalStack, accumulator, reads>>
    /\ UNCHANGED <<store, pending, caller, formulaID, targetQuantity, formula, byFormula, baseTotal,
                   workspace>>

\* entry: the path guard, the mark, and the check that the formula has rows
AccumulateEnter ==
    /\ pc = "accumulate"
    /\ frames # <<>>
    /\ Top.idx = 0
    /\ IF pathGuard(traversal, Top.formulaID) # errNil
       THEN /\ Return(pathGuard(traversal, Top.formulaID), EmptyData, "accumulate")
            /\ frames' = <<>>
            /\ UNCHANGED traversal
       ELSE IF Len(RowsOf(byFormula, Top.formulaID)) = 0
       THEN /\ traversal' = MapPut(traversal, Top.formulaID, FALSE)
            /\ Return(errBatchEmptyComposition, EmptyData, "accumulate")
            /\ frames' = <<>>
       ELSE /\ traversal' = MapPut(traversal, Top.formulaID, TRUE)
            /\ frames' = Advance
            /\ UNCHANGED <<pc, history>>
    /\ UNCHANGED <<totalsMemo, totalStack, accumulator, reads>>
    /\ AccumulateFrame

\* the amount of the row replaces the amount accumulated so far
AddAmountOverwrites(acc, id, chemical, amount) ==
    MapPut(acc, id, [Chemical |-> chemical, BaseAmount |-> amount])

\* accumulator[id].BaseAmount += amount, creating the entry at first sight
AddAmount(acc, id, chemical, amount) ==
    IF HasKey(acc, id)
    THEN [acc EXCEPT ![id].BaseAmount = FAdd(@, amount)]
    ELSE MapPut(acc, id, [Chemical |-> chemical, BaseAmount |-> FAdd(Zero, amount)])

skipsNegativeRow(amount) == FLt(amount, Zero)

\* if amount <= 0 { continue }
skipsRow(amount) == FLe(amount, Zero)

\* the error of First is dropped and the blank record it leaves is used
firstChemicalOrBlank(id) ==
    IF HasKey(chemicals, id) THEN Ptr(chemicals[id])
    ELSE Ptr([IngredientName |-> <<>>, CASNumber |-> <<>>, PyramidPosition |-> <<>>])

\* database.First(&fetched, *ing.AromaChemicalID): the record, or nil with the error
firstChemical(id) == IF HasKey(chemicals, id) THEN Ptr(chemicals[id]) ELSE Nil

\* one iteration of the loop over the rows of the formula
AccumulateRow ==
    /\ pc = "accumulate"
    /\ frames # <<>>
    /\ Top.idx >= 1
    /\ Top.idx <= Len(RowsOf(byFormula, Top.formulaID))
    /\ LET ing == RowsOf(byFormula, Top.formulaID)[Top.idx]
           amount == FMul(normalizeAmount(ing.Amount, ing.Unit), Top.factor)
       IN  IF skipsRow(amount)
           THEN /\ frames' = Advance
                /\ UNCHANGED <<pc, history, totalsMemo, totalStack, accumulator, reads>>
           ELSE IF ing.AromaChemicalID # Nil
           THEN LET id == ing.AromaChemicalID[1]
                    chemical == IF ing.AromaChemical # Nil THEN ing.AromaChemical
                                ELSE firstChemical(id)
                IN  IF chemical = Nil
                    THEN /\ Return(ErrRecordNotFound, EmptyData, "accumulate")
                         /\ frames' = <<>>
                         /\ UNCHANGED <<totalsMemo, totalStack, accumulator, reads>>
                    ELSE /\ accumulator' = AddAmount(accumulator, id, chemical, amount)
                         /\ frames' = Advance
                         /\ UNCHANGED <<pc, history, totalsMemo, totalStack, reads>>
           ELSE IF ing.SubFormulaID # Nil /\ ing.SubFormulaID[1] # 0
           THEN LET sub == ing.SubFormulaID[1]
                    r == computeFormulaTotal(sub, byFormula, totalsMemo, totalStack)
                IN  /\ totalsMemo' = r.memo
                    /\ totalStack' = r.stack
                    /\ reads' = Counted(reads, sub, r.summed)
                    /\ UNCHANGED accumulator
                    /\ IF r.err # errNil
                       THEN Return(r.err, EmptyData, "accumulate") /\ frames' = <<>>
                       ELSE IF FLe(r.value, Zero)
                       THEN frames' = Advance /\ UNCHANGED <<pc, history>>
                       ELSE /\ frames' = Append(Advance,
                                   [formulaID |-> sub, factor |-> subFactor(amount, r.value),
                                    idx |-> 0])
                            /\ UNCHANGED <<pc, history>>
           ELSE /\ frames' = Advance
                /\ UNCHANGED <<pc, history, totalsMemo, totalStack, accumulator, reads>>
    /\ UNCHANGED traversal
    /\ AccumulateFrame

\* after the last row: clear the mark and return nil to the caller
AccumulateLeave ==
    /\ pc = "accumulate"
    /\ frames # <<>>
    /\ Top.idx > Len(RowsOf(byFormula, Top.formulaID))
    /\ traversal' = pathCleared(traversal, Top.formulaID)
    /\ frames' = SubSeq(frames, 1, Len(frames) - 1)
    /\ pc' = IF Len(frames) = 1 THEN "assemble" ELSE "accumulate"
    /\ UNCHANGED <<history, totalsMemo, totalStack, accumulator, reads>>
    /\ AccumulateFrame

----------------------------------------------------------------------------
(* the report: scale, rows, sort, ranks and metadata *)

\* the orders in which a range over a map with keys S can enumerate them
Orders(S) ==
    {o \in [1..Cardinality(S) -> S] : \A i, j \in 1..Cardinality(S) : o[i] = o[j] => i = j}

\* scale := targetQuantity / baseTotal
scaleUnapplied(quantity, total) == Whole(1)

scaleOf(quantity, total) == FDiv(quantity, total)

finalQuantityMagnitude(baseAmount, scale) == FAbs(FMul(baseAmount, scale))

\* finalQuantity := total.BaseAmount * scale
finalQuantityOf(baseAmount, scale) == FMul(baseAmount, scale)

\* the loop over the accumulator in the order it is enumerated
RECURSIVE reportRows(_, _, _, _, _)
reportRows(acc, order, i, scale, rows) ==
    IF i > Len(order) THEN rows
    ELSE LET total == acc[order[i]]
             finalQuantity == finalQuantityOf(total.BaseAmount, scale)
         IN  IF total.Chemical = Nil \/ FLe(finalQuantity, Zero)
             THEN reportRows(acc, order, i + 1, scale, rows)
             ELSE reportRows(acc, order, i + 1, scale, Append(rows,
                    [Order |-> 0,
                     IngredientName |-> total.Chemical[1].IngredientName,
                     CASNumber |-> TrimSpace(total.Chemical[1].CASNumber),
                     Pyramid |-> CanonicalPyramidPosition(total.Chemical[1].PyramidPosition),
                     PyramidLabel |-> PyramidPositionLabel(total.Chemical[1].PyramidPosition),
                     FinalQuantity |-> finalQuantity,
                     BaseQuantity |-> total.BaseAmount,
                     Unit |-> S_g]))

numberedFromZero(rows) == [i \in 1..Len(rows) |-> [rows[i] EXCEPT !.Order = i - 1]]

\* reportIngredients[idx].Order = idx + 1
numbered(rows) == [i \in 1..Len(rows) |-> [rows[i] EXCEPT !.Order = i]]

\* fmt.Sprintf("PERF-%s-%03d", runTime.Format("20060102"), formula.Version)
LotNumber(runTime, version) == <<"PERF", runTime, version>>

reportData(rows, runTime) ==
    LET scale == scaleOf(targetQuantity, baseTotal)
    IN  [FormulaName |-> formula.Name,
         FormulaVersion |-> formula.Version,
         TargetQuantity |-> targetQuantity,
         TargetUnit |-> S_g,
         BaseBatchQuantity |-> baseTotal,
         BaseBatchUnit |-> S_g,
         ScaleFactor |-> scale,
         LotNumber |-> LotNumber(runTime, formula.Version),
         RunDate |-> runTime,
         Ingredients |-> rows]

\* the rows of the report when the accumulator is enumerated in the given order
sortedRows(order) ==
    numbered(sortBatchProductionIngredients(
        reportRows(accumulator, order, 1, scaleOf(targetQuantity, baseTotal), <<>>)))

\* scale := targetQuantity / baseTotal, its check, and the rest of the function
Assemble ==
    /\ pc = "assemble"
    /\ IF ~IsFinite(scaleOf(targetQuantity, baseTotal))
       THEN Return(errBatchInvalidQuantity, EmptyData, "assemble")
       ELSE \E rows \in {sortedRows(order) : order \in Orders(DOMAIN accumulator)} :
            \E runTime \in 1..MaxDay :
                Return(errNil, reportData(rows, runTime), "assemble")
    /\ UNCHANGED <<store, pending, caller, formulaID, targetQuantity, locals, workspace>>

----------------------------------------------------------------------------
(* the stores and requests the model starts from *)

Row(owner, amount, unit, chem, sub) ==
    [FormulaID |-> owner, Amount |-> amount, Unit |-> unit,
     AromaChemicalID |-> chem, SubFormulaID |-> sub, AromaChemical |-> Nil]

Chem(name, cas, pyramid) == [IngredientName |-> name, CASNumber |-> cas, PyramidPosition |-> pyramid]

Request(via, id, quantity) == [via |-> via, formula_id |-> id, target_quantity |-> quantity]

FormulaIds == 1..4
AllFormulas == [f \in FormulaIds |-> [Name |-> <<70, 48 + f>>, Version |-> f]]
Without(id) == [f \in FormulaIds \ {id} |-> AllFormulas[f]]

\* "Amber", "amber", "Benzoin", "Cedar", "Citrus", "Bergamot", "Musk", "Oud", "Vanilla"
N_Amber == <<65, 109, 98, 101, 114>>
N_amber == <<97, 109, 98, 101, 114>>
N_Benzoin == <<66, 101, 110, 122, 111, 105, 110>>
N_Cedar == <<67, 101, 100, 97, 114>>
N_Citrus == <<67, 105, 116, 114, 117, 115>>
N_Bergamot == <<66, 101, 114, 103, 97, 109, 111, 116>>
N_Musk == <<77, 117, 115, 107>>
N_Oud == <<79, 117, 100>>
N_Vanilla == <<86, 97, 110, 105, 108, 108, 97>>

\* nine chemicals: two in the base rank whose names differ in case only, one per
\* other rank written as users write it, and three the report ranks last (unset,
\* not canonical, "all")
Shelf ==
    <<Chem(N_Amber, <<49>>, S_base),
      Chem(N_amber, <<50, 32>>, <<32>> \o S_base \o <<32>>),
      Chem(N_Benzoin, <<51>>, <<72, 101, 97, 114, 116, 32, 66, 97, 115, 101>>),
      Chem(N_Cedar, <<>>, S_heart),
      Chem(N_Citrus, <<53>>, <<84, 79, 80, 95, 72, 69, 65, 82, 84>>),
      Chem(N_Bergamot, <<54>>, S_top),
      Chem(N_Musk, <<55>>, <<>>),
      Chem(N_Oud, <<56>>, S_base_heart),
      Chem(N_Vanilla, <<57>>, S_all)>>
ShelfIds == 1..Len(Shelf)
ShelfMap == [c \in ShelfIds |-> Shelf[c]]
\* a chemical id no row of aroma_chemicals carries (the chemical was deleted)
Deleted == Len(Shelf) + 1

\* the rows a formula owns, from <<amount, chemical, sub-formula>> triples
RowsFor(owner, kinds) ==
    [i \in 1..Len(kinds) |-> Row(owner, Whole(kinds[i][1]), S_g, kinds[i][2], kinds[i][3])]

\* the formulas the triples name as sub-formulas
Subs(kinds) == {kinds[i][3][1] : i \in {j \in 1..Len(kinds) : kinds[j][3] # Nil}}

\* graph family: up to MaxRows rows over three formulas, every row one gram more or
\* less of chemical 1 or of a formula; only formulas reachable from the target own rows
GraphKinds ==
    {<<a, Ptr(1), Nil>> : a \in {-1, 1}} \cup {<<a, Nil, Ptr(f)>> : a \in {-1, 1}, f \in 1..3}

GraphInit ==
    \E n1 \in 0..MaxRows : \E n2 \in 0..(MaxRows - n1) : \E n3 \in 0..(MaxRows - n1 - n2) :
    \E k1 \in [1..n1 -> GraphKinds], k2 \in [1..n2 -> GraphKinds], k3 \in [1..n3 -> GraphKinds] :
        /\ n2 > 0 => (2 \in Subs(k1) \/ (3 \in Subs(k1) /\ 2 \in Subs(k3)))
        /\ n3 > 0 => (3 \in Subs(k1) \/ (2 \in Subs(k1) /\ 3 \in Subs(k2)))
        /\ formulas = AllFormulas
        /\ chemicals = ShelfMap
        /\ ingredients = RowsFor(1, k1) \o RowsFor(2, k2) \o RowsFor(3, k3)
        /\ pending = <<Request("http", 1, Whole(1))>>

\* flat family: one formula of up to three chemicals of the shelf, a whole number of
\* grams each, requested twice: for 1 g and again for 1 g or for 2 g
FlatInit ==
    \E cs \in {c \in SUBSET ShelfIds : Cardinality(c) <= 3} :
    \E amt \in [cs -> 1..MaxAmount], again \in {1, 2} :
    \E order \in {o \in Orders(cs) : \A i \in 1..Len(o) - 1 : o[i] < o[i + 1]} :
        /\ formulas = AllFormulas
        /\ chemicals = ShelfMap
        /\ ingredients = [i \in 1..Len(order) |->
                            Row(1, Whole(amt[order[i]]), S_g, Ptr(order[i]), Nil)]
        /\ pending = <<Request("http", 1, Whole(1)), Request("http", 1, Whole(again))>>

\* nested family: formula 1 holds a chemical and formula 2, formula 2 holds two
\* chemicals, one of them perhaps deleted; amounts from -1 to MaxAmount
NestedInit ==
    \E x, y, z, w \in -1..MaxAmount, b \in {1, 6}, c \in {6, Deleted}, q \in 1..MaxQ :
        /\ formulas = AllFormulas
        /\ chemicals = ShelfMap
        /\ ingredients = <<Row(1, Whole(x), S_g, Ptr(1), Nil),
                           Row(1, Whole(y), S_g, Nil, Ptr(2)),
                           Row(2, Whole(z), S_g, Ptr(b), Nil),
                           Row(2, Whole(w), S_g, Ptr(c), Nil)>>
        /\ pending = <<Request("http", 1, Whole(q))>>

\* units as users type them: "g", "mg", "kg", "ml", " MG ", "Kg", "", "oz"
Units ==
    {S_g, S_mg, S_kg, S_ml, <<32, 77, 71, 32>>, <<75, 103>>, <<>>, <<111, 122>>}

\* unit family: 1000 units of chemical 1 and a sub-formula measured in another unit
UnitInit ==
    \E u1, u2 \in Units :
        /\ formulas = AllFormulas
        /\ chemicals = ShelfMap
        /\ ingredients = <<Row(1, Whole(1000), u1, Ptr(1), Nil),
                           Row(1, Whole(2), u2, Nil, Ptr(2)),
                           Row(2, Whole(1), S_g, Ptr(6), Nil)>>
        /\ pending = <<Request("http", 1, Whole(1))>>

\* the fixture of TestBuildBatchProductionReportDataScalesAndConsolidates: formula 1
\* is the sub-formula, formula 2 the parent
FixtureRows ==
    <<Row(1, Whole(3), S_g, Ptr(1), Nil),
      Row(1, Whole(2), S_g, Ptr(6), Nil),
      Row(2, Whole(10), S_g, Ptr(1), Nil),
      Row(2, Whole(5), S_g, Nil, Ptr(1))>>

\* formula 1 reaches formula 4 through formula 2 and through formula 3
DiamondRows ==
    <<Row(1, Whole(1), S_g, Nil, Ptr(2)),
      Row(1, Whole(1), S_g, Nil, Ptr(3)),
      Row(2, Whole(2), S_g, Nil, Ptr(4)),
      Row(3, Whole(1), S_g, Nil, Ptr(4)),
      Row(4, Whole(1), S_g, Ptr(1), Nil),
      Row(4, Whole(3), S_g, Ptr(6), Nil)>>

\* three chemicals of the last rank, 0.001 mg, 0.00175 mg and 0.0025 mg
NearTieRows ==
    <<Row(1, Frac(1, 1000), S_mg, Ptr(7), Nil),
      Row(1, Frac(7, 4000), S_mg, Ptr(8), Nil),
      Row(1, Frac(1, 400), S_mg, Ptr(9), Nil)>>
NearTieTotal == Frac(21, 4000000)

\* two chemicals of one rank, 0.75e-6 g apart at the base batch
NearPairRows ==
    <<Row(1, Frac(1, 1000), S_mg, Ptr(7), Nil),
      Row(1, Frac(7, 4000), S_mg, Ptr(8), Nil)>>
NearPairTotal == Frac(11, 4000000)

\* four chemicals of two ranks: one quantity apart and one pair of equal quantities
SortRows ==
    <<Row(1, Whole(1), S_g, Ptr(8), Nil),
      Row(1, Whole(2), S_g, Ptr(9), Nil),
      Row(1, Whole(1), S_g, Ptr(7), Nil),
      Row(1, Whole(1), S_g, Ptr(1), Nil)>>
SortTotal == Whole(5)

\* formula 1 holds formula 2, which owns no row
DanglingRows ==
    <<Row(1, Whole(1), S_g, Ptr(1), Nil),
      Row(1, Whole(1), S_g, Nil, Ptr(2))>>

\* formula 1 and formula 2 hold one another
CycleRows ==
    <<Row(1, Whole(1), S_g, Ptr(1), Nil),
      Row(1, Whole(1), S_g, Nil, Ptr(2)),
      Row(2, Whole(1), S_g, Nil, Ptr(1))>>

\* quantities a request can carry besides the whole numbers: negative, zero, a
\* fraction, NaN and +Inf (strconv.ParseFloat accepts "NaN" and "Inf")
EdgeQuantities == {Whole(-1), Zero, Frac(1, 2), NaN, PosInf}

\* scenario family: the named stores under the edge quantities, with one of the two
\* formulas deleted or none, requested over http or called directly
ScenarioInit ==
    \/ \E target \in {1, 2}, gone \in {0, 1, 2}, via \in {"http", "direct"},
          rows \in {FixtureRows, CycleRows, DanglingRows, <<>>},
          q \in EdgeQuantities \cup {Whole(30)} :
        /\ formulas = IF gone # 0 THEN Without(gone) ELSE AllFormulas
        /\ chemicals = ShelfMap
        /\ ingredients = rows
        /\ pending = <<Request(via, target, q)>>
    \/ \E q \in {Whole(1), Whole(4)}, again \in {1, 2} :
        /\ formulas = AllFormulas
        /\ chemicals = ShelfMap
        /\ ingredients = DiamondRows
        /\ pending = <<Request("http", 1, q), Request("http", 1, FMul(Whole(again), q))>>
    \/ \E again \in {1, 2}, near \in {<<NearTieRows, NearTieTotal>>, <<NearPairRows, NearPairTotal>>,
                   <<SortRows, SortTotal>>} :
        /\ formulas = AllFormulas
        /\ chemicals = ShelfMap
        /\ ingredients = near[1]
        /\ pending = <<Request("http", 1, near[2]),
                       Request("http", 1, FMul(Whole(again), near[2]))>>
    \/ /\ formulas = AllFormulas
       /\ chemicals = ShelfMap
       /\ ingredients = FixtureRows
       /\ pending = <<Request("http", 0, Whole(30))>>

\* no call is running and no helper is being checked
NoCheck == [op |-> "none", pc |-> "done"]
NoCall == [pc |-> "idle"]
\* the formula editor is not part of the behaviour
NoEditor == [op |-> "none"]

Init ==
    /\ (GraphInit \/ FlatInit \/ NestedInit \/ UnitInit \/ ScenarioInit)
    /\ check = NoCheck
    /\ parked = NoCall
    /\ interleaved = FALSE
    /\ editor = NoEditor
    /\ reads = EmptyMap
    /\ caller = "none"
    /\ pc = "idle"
    /\ formulaID = 0
    /\ targetQuantity = Zero
    /\ formula = NoFormula
    /\ byFormula = EmptyMap
    /\ totalsMemo = EmptyMap
    /\ totalStack = EmptyMap
    /\ baseTotal = Zero
    /\ accumulator = EmptyMap
    /\ traversal = EmptyMap
    /\ frames = <<>>
    /\ history = <<>>

Next ==
    \/ GenerateBatchProductionReport
    \/ DirectCall
    \/ FindFormula
    \/ LoadIngredients
    \/ ComputeBaseTotal
    \/ AccumulateEnter
    \/ AccumulateRow
    \/ AccumulateLeave
    \/ Assemble

Spec == Init /\ [][Next]_vars

----------------------------------------------------------------------------
(* wouldCreateFormulaCycle and normalizeAmount, called on their own *)

\* most sub-formula rows in a store of the dependency family
MaxEdges == 3

\* buildFormulaDependencyGraph: for each formula of the list, the non-zero sub-formula
\* ids of its rows in row order; a formula without such a row has no key
buildFormulaDependencyGraph ==
    LET subs(f) == SelectSeq(ingredients,
                      LAMBDA r : r.FormulaID = f /\ r.SubFormulaID # Nil /\ r.SubFormulaID[1] # 0)
        keys == {f \in DOMAIN formulas : Len(subs(f)) > 0}
    IN  [f \in keys |-> [i \in 1..Len(subs(f)) |-> subs(f)[i].SubFormulaID[1]]]

\* children := graph[n]
childrenOf(graph, n) == IF HasKey(graph, n) THEN graph[n] ELSE <<>>

\* the check has returned result
Answered(c, result) == [c EXCEPT !.pc = "done", !.result = result]

\* one pass of the loop of formulaContains that appends the first child only
formulaContainsFirstChild(c) ==
    IF c.stack = <<>> THEN Answered(c, FALSE)
    ELSE LET n == c.stack[Len(c.stack)]
             rest == SubSeq(c.stack, 1, Len(c.stack) - 1)
             children == childrenOf(c.graph, n)
         IN  IF n = c.parentID THEN Answered([c EXCEPT !.stack = rest], TRUE)
             ELSE IF n \in c.visited THEN [c EXCEPT !.stack = rest]
             ELSE [c EXCEPT !.stack = rest \o (IF children = <<>> THEN <<>> ELSE <<children[1]>>),
                            !.visited = @ \cup {n}]

\* one pass of the loop of formulaContains, or its return once the stack is empty
formulaContainsPass(c) ==
    IF c.stack = <<>> THEN Answered(c, FALSE)
    ELSE LET n == c.stack[Len(c.stack)]
             rest == SubSeq(c.stack, 1, Len(c.stack) - 1)
         IN  IF n = c.parentID THEN Answered([c EXCEPT !.stack = rest], TRUE)
             ELSE IF n \in c.visited THEN [c EXCEPT !.stack = rest]
             ELSE [c EXCEPT !.stack = rest \o childrenOf(c.graph, n),
                            !.visited = @ \cup {n}]

\* no call of the report is running
NoReport ==
    /\ pending = <<>>
    /\ reads = EmptyMap
    /\ caller = "none"
    /\ pc = "idle"
    /\ formulaID = 0
    /\ targetQuantity = Zero
    /\ formula = NoFormula
    /\ byFormula = EmptyMap
    /\ totalsMemo = EmptyMap
    /\ totalStack = EmptyMap
    /\ baseTotal = Zero
    /\ accumulator = EmptyMap
    /\ traversal = EmptyMap
    /\ frames = <<>>
    /\ history = <<>>

\* no helper was called yet: a behaviour follows one call
Resting == check.op = "none"

\* wouldCreateFormulaCycle up to the loop of formulaContains
WouldCreateFormulaCycle ==
    /\ Resting
    /\ \E parentID, candidateID \in 0..Cardinality(FormulaIds) :
          LET c == [op |-> "cycle", pc |-> "loop", graph |-> buildFormulaDependencyGraph,
                    parentID |-> parentID, candidateID |-> candidateID,
                    stack |-> <<>>, visited |-> {}, result |-> FALSE]
          IN  check' = IF parentID = 0 \/ candidateID = 0 THEN Answered(c, FALSE)
                       ELSE IF parentID = candidateID THEN Answered(c, TRUE)
                       ELSE [c EXCEPT !.stack = <<candidateID>>]
    /\ UNCHANGED <<store, pending, caller, pc, formulaID, targetQuantity, locals, history,
                   parked, interleaved, editor>>

\* formulaContains: one pass of for len(stack) > 0
FormulaContains ==
    /\ check.op = "cycle"
    /\ check.pc = "loop"
    /\ check' = formulaContainsPass(check)
    /\ UNCHANGED <<store, pending, caller, pc, formulaID, targetQuantity, locals, history,
                   parked, interleaved, editor>>

\* amounts and units handed to normalizeAmount
NormalizeAmounts == {Whole(-1), Zero, Frac(1, 1000), Frac(1, 2), Whole(1), Whole(2), Whole(1000)}
\* "g", "mg", "kg", "ml", " MG ", "Kg", "", "oz", tab "mG" newline, "m g", "kgs", " "
NormalizeUnits ==
    Units \cup {<<9, 109, 71, 10>>, <<109, 32, 103>>, <<107, 103, 115>>, <<32>>}

NormalizeAmount ==
    /\ Resting
    /\ \E amount \in NormalizeAmounts, unit \in NormalizeUnits :
          check' = [op |-> "normalize", pc |-> "done", amount |-> amount, unit |-> unit,
                    result |-> normalizeAmount(amount, unit)]
    /\ UNCHANGED <<store, pending, caller, pc, formulaID, targetQuantity, locals, history,
                   parked, interleaved, editor>>

\* the sub-formula rows a store of the dependency family can hold
EdgeRows == {<<f, g>> : f, g \in 1..3}

\* the rows of a set of edges, by owner and then by sub-formula
RECURSIVE EdgeSeq(_)
EdgeSeq(edges) ==
    IF edges = {} THEN <<>>
    ELSE LET e == CHOOSE x \in edges :
                    \A y \in edges : x[1] < y[1] \/ (x[1] = y[1] /\ x[2] <= y[2])
         IN  <<Row(e[1], Whole(1), S_g, Nil, Ptr(e[2]))>> \o EdgeSeq(edges \ {e})

\* dependency family: up to MaxEdges sub-formula rows among formulas 1..3, in either
\* row order; formula 4 holds a chemical and a row with the sub-formula id 0; formula
\* 3 is or is not in the list of formulas
DependencyInit ==
    \E edges \in {e \in SUBSET EdgeRows : Cardinality(e) <= MaxEdges},
       gone \in {0, 3}, reversed \in BOOLEAN :
        LET rows == EdgeSeq(edges)
        IN  /\ formulas = IF gone = 0 THEN AllFormulas ELSE Without(gone)
            /\ chemicals = ShelfMap
            /\ ingredients = (IF reversed THEN [i \in 1..Len(rows) |-> rows[Len(rows) + 1 - i]]
                              ELSE rows)
                             \o <<Row(4, Whole(1), S_g, Ptr(1), Nil),
                                  Row(4, Whole(1), S_g, Nil, Ptr(0))>>

HelperInit ==
    /\ DependencyInit
    /\ NoReport
    /\ check = NoCheck
    /\ parked = NoCall
    /\ interleaved = FALSE
    /\ editor = NoEditor

HelperNext ==
    \/ WouldCreateFormulaCycle
    \/ FormulaContains
    \/ NormalizeAmount

\* the loop of formulaContains is run by one goroutine that is not stopped
HelperSpec == HelperInit /\ [][HelperNext]_vars /\ WF_vars(FormulaContains)

----------------------------------------------------------------------------
(* two calls of buildBatchProductionReportData in two goroutines *)

\* the goroutine that is scheduled: its arguments, position and locals
Running ==
    [caller |-> caller, pc |-> pc, formulaID |-> formulaID, targetQuantity |-> targetQuantity,
     formula |-> formula, byFormula |-> byFormula, totalsMemo |-> totalsMemo,
     totalStack |-> totalStack, baseTotal |-> baseTotal, accumulator |-> accumulator,
     traversal |-> traversal, frames |-> frames, reads |-> reads]

\* one path guard for both goroutines: the map of the goroutine that was running
pathOfRunning(call) == traversal

\* traversal := make(map[uint]bool) is a local of the call: each goroutine has its own
pathOf(call) == call.traversal

\* the last request arrives while the call before it runs: the handler's goroutine
\* starts with no locals, the running one waits
StartConcurrently ==
    /\ pc # "idle"
    /\ parked = NoCall
    /\ Len(pending) = 1
    /\ parked' = Running
    /\ caller' = "none"
    /\ pc' = "idle"
    /\ formulaID' = 0
    /\ targetQuantity' = Zero
    /\ formula' = NoFormula
    /\ byFormula' = EmptyMap
    /\ totalsMemo' = EmptyMap
    /\ totalStack' = EmptyMap
    /\ baseTotal' = Zero
    /\ accumulator' = EmptyMap
    /\ traversal' = EmptyMap
    /\ frames' = <<>>
    /\ reads' = EmptyMap
    /\ UNCHANGED <<store, pending, history, check, interleaved, editor>>

\* the scheduler runs the waiting goroutine; the other waits unless it has returned
Switch ==
    /\ parked # NoCall
    /\ (pc = "idle" => pending = <<>>)
    /\ caller' = parked.caller
    /\ pc' = parked.pc
    /\ formulaID' = parked.formulaID
    /\ targetQuantity' = parked.targetQuantity
    /\ formula' = parked.formula
    /\ byFormula' = parked.byFormula
    /\ totalsMemo' = parked.totalsMemo
    /\ totalStack' = parked.totalStack
    /\ baseTotal' = parked.baseTotal
    /\ accumulator' = parked.accumulator
    /\ traversal' = pathOf(parked)
    /\ frames' = parked.frames
    /\ reads' = parked.reads
    /\ parked' = IF pc = "idle" THEN NoCall ELSE Running
    /\ interleaved' = (interleaved \/ (pc = "accumulate" /\ parked.pc = "accumulate"
                                        /\ traversal # EmptyMap /\ parked.traversal # EmptyMap))
    /\ UNCHANGED <<store, pending, history, check, editor>>

\* chemicals 1 and 2, "Amber" and "amber", one gram each
TwinRows ==
    <<Row(1, Whole(1), S_g, Ptr(1), Nil),
      Row(1, Whole(1), S_g, Ptr(2), Nil),
      Row(2, Whole(1), S_g, Ptr(1), Nil)>>

\* concurrent family: two requests on a named store, each made alone first and then
\* both made again, the second while the first is running
ConcurrentInit ==
    /\ \E rows \in {FixtureRows, DiamondRows, CycleRows, DanglingRows, TwinRows},
          fa, fb \in {1, 2}, qa \in 1..MaxQ :
          LET a == Request("http", fa, Whole(qa))
              b == Request("direct", fb, Whole(1))
          IN  /\ formulas = AllFormulas
              /\ chemicals = ShelfMap
              /\ ingredients = rows
              /\ pending = <<a, b, a, b>>
    /\ check = NoCheck
    /\ parked = NoCall
    /\ interleaved = FALSE
    /\ editor = NoEditor
    /\ reads = EmptyMap
    /\ caller = "none"
    /\ pc = "idle"
    /\ formulaID = 0
    /\ targetQuantity = Zero
    /\ formula = NoFormula
    /\ byFormula = EmptyMap
    /\ totalsMemo = EmptyMap
    /\ totalStack = EmptyMap
    /\ baseTotal = Zero
    /\ accumulator = EmptyMap
    /\ traversal = EmptyMap
    /\ frames = <<>>
    /\ history = <<>>

ConcurrentNext ==
    \/ GenerateBatchProductionReport
    \/ DirectCall
    \/ FindFormula
    \/ LoadIngredients
    \/ ComputeBaseTotal
    \/ AccumulateEnter
    \/ AccumulateRow
    \/ AccumulateLeave
    \/ Assemble
    \/ StartConcurrently
    \/ Switch

ConcurrentSpec == ConcurrentInit /\ [][ConcurrentNext]_vars

----------------------------------------------------------------------------
(* rows that carry both references or none, or a chemical that is not stored *)

\* malformed family: formula 1 holds a chemical, a row with both references, with
\* none or with a chemical that is not stored, and formula 2; formula 2 holds a
\* chemical and a second such row; formula 3, named by the rows with both
\* references, holds a chemical
MalformedInit ==
    /\ \E c1, c2 \in {Nil, Ptr(1), Ptr(6), Ptr(Deleted)}, s1, s2 \in {Nil, Ptr(3)},
          a \in 1..MaxAmount, via \in {"http", "direct"}, target \in {1, 2} :
          /\ s1 = Nil => c1 \in {Nil, Ptr(Deleted)}
          /\ s1 # Nil => c1 # Nil
          /\ s2 = Nil => c2 \in {Nil, Ptr(Deleted)}
          /\ s2 # Nil => c2 # Nil
          /\ formulas = AllFormulas
          /\ chemicals = ShelfMap
          /\ ingredients = <<Row(1, Whole(1), S_g, Ptr(1), Nil),
                             Row(1, Whole(a), S_g, c1, s1),
                             Row(1, Whole(1), S_g, Nil, Ptr(2)),
                             Row(2, Whole(1), S_g, Ptr(4), Nil),
                             Row(2, Whole(a), S_g, c2, s2),
                             Row(3, Whole(1), S_g, Ptr(5), Nil)>>
          /\ pending = <<Request(via, target, Whole(2))>>
    /\ check = NoCheck
    /\ parked = NoCall
    /\ interleaved = FALSE
    /\ editor = NoEditor
    /\ reads = EmptyMap
    /\ caller = "none"
    /\ pc = "idle"
    /\ formulaID = 0
    /\ targetQuantity = Zero
    /\ formula = NoFormula
    /\ byFormula = EmptyMap
    /\ totalsMemo = EmptyMap
    /\ totalStack = EmptyMap
    /\ baseTotal = Zero
    /\ accumulator = EmptyMap
    /\ traversal = EmptyMap
    /\ frames = <<>>
    /\ history = <<>>

MalformedSpec == MalformedInit /\ [][Next]_vars

\* the goroutine of a call is scheduled until the call returns
FairSpec == Init /\ [][Next]_vars /\ WF_vars(Next)

----------------------------------------------------------------------------
(* the formula editor, the JSON resource of composition rows and FormulaDelete *)

\* the largest id the table formula_ingredients hands out
MaxRowId == 2
\* the largest id the table formulas hands out
MaxFormulaId == 4
\* most rows of one submitted editor form
MaxForm == 2
\* new_version is submitted for formulas below this version
MaxVersion == 2

\* a row of formula_ingredients with its primary key
Stored(id, row) == row @@ [ID |-> id]

\* rows given the keys 1, 2, ... in their order
Keyed(rows) == [i \in 1..Len(rows) |-> Stored(i, rows[i])]

\* strconv.ParseFloat on a run of decimal digits; any other text is an error
RECURSIVE DigitsValue(_)
DigitsValue(s) == IF s = <<>> THEN 0 ELSE 10 * DigitsValue(SubSeq(s, 1, Len(s) - 1)) + (s[Len(s)] - 48)
ParseFloat(s) ==
    IF s # <<>> /\ \A i \in 1..Len(s) : s[i] >= 48 /\ s[i] <= 57
    THEN [value |-> Whole(DigitsValue(s)), err |-> FALSE]
    ELSE [value |-> Zero, err |-> TRUE]

\* parseIngredientSource: the trimmed text is "" (<<>>), has no colon (<<prefix>>), or is
\* split at its first colon into <<prefix, ParseUint of the rest>>
NoSource == [chemID |-> Nil, subID |-> Nil, err |-> TRUE]
parseIngredientSource(value) ==
    IF value = <<>> THEN NoSource
    ELSE IF Len(value) # 2 THEN NoSource
    ELSE IF value[2] = 0 THEN NoSource
    ELSE IF value[1] = "chem" THEN [chemID |-> Ptr(value[2]), subID |-> Nil, err |-> FALSE]
    ELSE IF value[1] = "formula" THEN [chemID |-> Nil, subID |-> Ptr(value[2]), err |-> FALSE]
    ELSE NoSource

\* formulaContains run to its return
RECURSIVE formulaContains(_)
formulaContains(c) == IF c.pc = "done" THEN c.result ELSE formulaContains(formulaContainsPass(c))

\* wouldCreateFormulaCycle(graph, parentID, candidateID)
wouldCreateFormulaCycle(graph, parentID, candidateID) ==
    IF parentID = 0 \/ candidateID = 0 THEN FALSE
    ELSE IF parentID = candidateID THEN TRUE
    ELSE formulaContains([op |-> "cycle", pc |-> "loop", graph |-> graph,
                          parentID |-> parentID, candidateID |-> candidateID,
                          stack |-> <<candidateID>>, visited |-> {}, result |-> FALSE])

\* messages of the editor and of the deletion result
M_name == "Formula name is required."
M_select == "Select an ingredient for each composition row before saving."
M_itself == "A formula cannot include itself as a sub-formula."
M_circular == "This selection would create a circular dependency between formulas."
M_numbers == "Ingredient amounts must be numbers."
M_updated == "Formula updated successfully."
M_copied == "Saved copy"
M_in_use == "This formula is used as a sub-formula in other compositions. Remove those references before deleting."
M_deleted == "deleted successfully."

\* the rows of the form from the first one on, as the loop of FormulaUpdate takes them:
\* st holds dependencyGraph, updates, deletes and the message of a rejection
RECURSIVE formulaUpdateRows(_, _, _)
formulaUpdateRows(form, id, st) ==
    IF form = <<>> THEN st
    ELSE LET row == Head(form)
             parsed == parseIngredientSource(row.source)
             amount == ParseFloat(row.amount)
             rest(s) == formulaUpdateRows(Tail(form), id, s)
         IN  IF row.remove
             THEN rest(IF row.entryID > 0 THEN [st EXCEPT !.deletes = Append(@, row.entryID)]
                       ELSE st)
             ELSE IF row.source = <<>> /\ row.amount = <<>> /\ row.unit = <<>> /\ row.entryID = 0
             THEN rest(st)
             ELSE IF parsed.err THEN [st EXCEPT !.message = M_select]
             ELSE IF parsed.subID # Nil /\ parsed.subID[1] = id
             THEN [st EXCEPT !.message = M_itself]
             ELSE IF parsed.subID # Nil /\ wouldCreateFormulaCycle(st.graph, id, parsed.subID[1])
             THEN [st EXCEPT !.message = M_circular]
             ELSE IF row.amount # <<>> /\ amount.err THEN [st EXCEPT !.message = M_numbers]
             ELSE rest([st EXCEPT
                        !.updates = Append(@, [ID |-> row.entryID,
                                               Amount |-> IF row.amount = <<>> THEN Zero
                                                          ELSE amount.value,
                                               Unit |-> row.unit,
                                               AromaChemicalID |-> parsed.chemID,
                                               SubFormulaID |-> parsed.subID]),
                        !.graph = IF parsed.subID = Nil THEN @
                                  ELSE MapPut(@, id, childrenOf(@, id) \o <<parsed.subID[1]>>)])

\* " (Copy)"
S_copy == <<32, 40, 67, 111, 112, 121, 41>>
\* " (Copy 2)", " (Copy 3)", ...
S_copy_n(i) == <<32, 40, 67, 111, 112, 121, 32, 48 + i, 41>>

\* NextCopiedFormulaName for a base that is not blank
RECURSIVE NextCopyNumbered(_, _, _)
NextCopyNumbered(used, base, i) ==
    IF ToLower(base \o S_copy_n(i)) \notin used THEN base \o S_copy_n(i)
    ELSE NextCopyNumbered(used, base, i + 1)
NextCopiedFormulaName(existing, base) ==
    LET baseTrim == TrimSpace(base)
        used == {ToLower(TrimSpace(existing[f].Name)) : f \in DOMAIN existing} \ {<<>>}
    IN  IF ToLower(baseTrim \o S_copy) \notin used THEN baseTrim \o S_copy
        ELSE NextCopyNumbered(used, baseTrim, 2)

\* what a submission is answered with when it writes nothing
Refused(id, status, message) ==
    [id |-> id, status |-> status, message |-> message, writes |-> FALSE]

\* FormulaUpdate from the snapshot to the transaction: the answer of a submission that
\* is turned away, or the writes the transaction is going to make
formulaUpdateRead(id, name, action, form) ==
    IF id = 0 THEN Refused(id, 400, "")
    ELSE IF ~HasKey(formulas, id) THEN Refused(id, 404, "")
    ELSE IF TrimSpace(name) = <<>> THEN Refused(id, 200, M_name)
    ELSE LET st == formulaUpdateRows(form, id,
                       [graph |-> buildFormulaDependencyGraph, updates |-> <<>>,
                        deletes |-> <<>>, message |-> ""])
         IN  IF st.message # "" THEN Refused(id, 200, st.message)
             ELSE [id |-> id, status |-> 200,
                   message |-> IF action = "save_as" THEN M_copied ELSE M_updated,
                   writes |-> TRUE, action |-> action, name |-> TrimSpace(name),
                   versionValue |-> IF action = "new_version" THEN formulas[id].Version + 1
                                    ELSE formulas[id].Version,
                   copyName |-> NextCopiedFormulaName(formulas, name),
                   updates |-> st.updates, deletes |-> st.deletes]

\* the rows after tx.Where("id IN ?", deletes).Delete
deleteRows(rows, deletes) ==
    SelectSeq(rows, LAMBDA r : \A i \in 1..Len(deletes) : r.ID # deletes[i])

\* tx.Model(&models.FormulaIngredient{}).Where("id = ?", update.ID).Updates(...)
updateRow(rows, update) ==
    [i \in 1..Len(rows) |->
        IF rows[i].ID = update.ID
        THEN [rows[i] EXCEPT !.Amount = update.Amount, !.Unit = update.Unit,
                             !.AromaChemicalID = update.AromaChemicalID,
                             !.SubFormulaID = update.SubFormulaID]
        ELSE rows[i]]

\* tx.Create(&record) of a row owned by owner
createRow(rows, owner, update, id) ==
    Append(rows, Stored(id, Row(owner, update.Amount, update.Unit,
                                update.AromaChemicalID, update.SubFormulaID)))

\* for _, update := range updates inside the transaction; db is [rows, nextRow]
RECURSIVE writeUpdates(_, _, _)
writeUpdates(updates, owner, db) ==
    IF updates = <<>> THEN db
    ELSE LET update == Head(updates)
         IN  writeUpdates(Tail(updates), owner,
                 IF update.ID > 0
                 THEN [db EXCEPT !.rows = updateRow(@, update)]
                 ELSE [rows |-> createRow(db.rows, owner, update, db.nextRow),
                       nextRow |-> db.nextRow + 1])

\* the rows a transaction of the submission creates
Creates(req) ==
    IF req.action = "save_as" THEN Len(req.updates)
    ELSE Len(SelectSeq(req.updates, LAMBDA u : u.ID = 0))

\* the ids handed out stay within the bounds
WithinBounds(req) ==
    /\ editor.nextRow + Creates(req) - 1 <= MaxRowId
    /\ req.action = "save_as" => editor.nextFormula <= MaxFormulaId
    /\ req.action = "new_version" => req.versionValue <= MaxVersion

\* the transaction of FormulaUpdate for save_as, and the one for update and new_version
formulaUpdateWrite(req) ==
    IF req.action = "save_as"
    THEN LET db == writeUpdates([i \in 1..Len(req.updates) |-> [req.updates[i] EXCEPT !.ID = 0]],
                                editor.nextFormula,
                                [rows |-> ingredients, nextRow |-> editor.nextRow])
         IN  [formulas |-> MapPut(formulas, editor.nextFormula,
                                  [Name |-> req.copyName, Version |-> 1]),
              rows |-> db.rows, nextRow |-> db.nextRow, nextFormula |-> editor.nextFormula + 1]
    ELSE LET db == writeUpdates(req.updates, req.id,
                                [rows |-> deleteRows(ingredients, req.deletes),
                                 nextRow |-> editor.nextRow])
         IN  [formulas |-> IF HasKey(formulas, req.id)
                           THEN [formulas EXCEPT ![req.id] =
                                    [Name |-> req.name,
                                     Version |-> IF req.versionValue > 0 THEN req.versionValue
                                                 ELSE @.Version]]
                           ELSE formulas,
              rows |-> db.rows, nextRow |-> db.nextRow, nextFormula |-> editor.nextFormula]

\* no deletion was answered yet
NoReply == [id |-> 0, status |-> 0, message |-> ""]
\* no request is between its snapshot and its transaction
Idle == [pc |-> "idle"]

\* the texts of the form fields
SourceTexts == {<<"chem", 1>>} \cup {<<"formula", s>> : s \in 1..(MaxFormulaId - 1)}
T_one == <<49>>
T_x == <<120>>
BlankRow == [entryID |-> 0, source |-> <<>>, amount |-> <<>>, unit |-> <<>>, remove |-> FALSE]
FormRows(entries) ==
    {BlankRow}
    \cup {[entryID |-> e, source |-> <<>>, amount |-> <<>>, unit |-> <<>>, remove |-> TRUE] :
            e \in entries \ {0}}
    \cup {[entryID |-> e, source |-> s, amount |-> T_one, unit |-> S_g, remove |-> FALSE] :
            e \in entries, s \in SourceTexts}
\* rows the editor turns away
BadRows ==
    {[entryID |-> 0, source |-> s, amount |-> T_one, unit |-> S_g, remove |-> FALSE] :
            s \in {<<>>, <<"formula">>, <<"formula", 0>>, <<"oil", 1>>}}
    \cup {[entryID |-> 0, source |-> <<"chem", 1>>, amount |-> T_x, unit |-> S_g,
           remove |-> FALSE]}
\* two rows that were added to the form, each naming a sub-formula
AddedPairs ==
    {<<[entryID |-> 0, source |-> <<"formula", s>>, amount |-> T_one, unit |-> S_g,
        remove |-> FALSE],
       [entryID |-> 0, source |-> <<"formula", t>>, amount |-> T_one, unit |-> S_g,
        remove |-> FALSE]>> : s, t \in 1..(MaxFormulaId - 1)}
\* the forms of at most MaxForm rows that are submitted
Forms(entries) ==
    {<<>>} \cup {<<row>> : row \in FormRows(entries) \cup BadRows}
    \cup (IF MaxForm >= 2 THEN AddedPairs ELSE {})
\* the submissions: formula id, form_action, whether the name is blank, the rows; new
\* versions and copies are asked of formula 1
Submission(id, action, blank, form) == [id |-> id, action |-> action, blank |-> blank, form |-> form]
Submissions(entries) ==
    {Submission(id, "update", FALSE, form) : id \in 1..MaxFormulaId, form \in Forms(entries)}
    \cup {Submission(1, action, FALSE, form) :
            action \in {"new_version", "save_as"}, form \in Forms(entries)}
    \cup {Submission(0, "update", FALSE, <<>>), Submission(1, "update", TRUE, <<>>)}

\* the handler ran from the request to the response
Served(req, db) ==
    /\ formulas' = db.formulas
    /\ ingredients' = db.rows
    /\ editor' = [editor EXCEPT !.nextRow = db.nextRow, !.nextFormula = db.nextFormula]

\* FormulaUpdate, one request from the form to the response
FormulaUpdate ==
    /\ editor.op = "editor"
    /\ \E form \in Submissions(0..MaxRowId) :
          LET name == IF form.blank \/ ~HasKey(formulas, form.id) THEN <<32>>
                      ELSE formulas[form.id].Name
              req == formulaUpdateRead(form.id, name, form.action, form.form)
          IN  /\ IF req.writes
                 THEN WithinBounds(req) /\ Served(req, formulaUpdateWrite(req))
                 ELSE UNCHANGED <<formulas, ingredients, editor>>
    /\ UNCHANGED <<chemicals, pending, caller, pc, formulaID, targetQuantity, locals, history,
                   check, parked, interleaved>>

\* normalizedUnit of the JSON resource
normalizedUnit(unit) == IF TrimSpace(unit) = <<>> THEN S_g ELSE TrimSpace(unit)

\* validateFormulaIngredientPayload: the error text, "" for nil
validateFormulaIngredientPayload(payload) ==
    LET hasChemical == payload.AromaChemicalID # Nil /\ payload.AromaChemicalID[1] # 0
        hasSubFormula == payload.SubFormulaID # Nil /\ payload.SubFormulaID[1] # 0
    IN  IF payload.FormulaID = 0 THEN "formula_id is required"
        ELSE IF ~FGt(payload.Amount, Zero) THEN "amount must be greater than zero"
        ELSE IF hasChemical /\ hasSubFormula
        THEN "only one of aroma_chemical_id or sub_formula_id may be set"
        ELSE IF ~hasChemical /\ ~hasSubFormula
        THEN "either aroma_chemical_id or sub_formula_id must be provided"
        ELSE ""

\* the bodies the JSON resource is sent
Payloads ==
    {[FormulaID |-> f, Amount |-> Whole(1), Unit |-> <<>>, AromaChemicalID |-> c,
      SubFormulaID |-> s] :
        f \in {0} \cup DOMAIN formulas, c \in {Nil, Ptr(1)},
        s \in {Nil} \cup {Ptr(g) : g \in DOMAIN formulas}}
    \cup {[FormulaID |-> 1, Amount |-> a, Unit |-> S_mg, AromaChemicalID |-> Ptr(1),
           SubFormulaID |-> Nil] : a \in {Zero, Whole(1)}}

\* POST /app/api/formula-ingredients
createFormulaIngredient ==
    /\ editor.op = "editor"
    /\ \E payload \in Payloads :
          LET message == validateFormulaIngredientPayload(payload)
          IN  IF message # ""
              THEN UNCHANGED <<ingredients, editor>>
              ELSE /\ editor.nextRow <= MaxRowId
                   /\ ingredients' = Append(ingredients,
                          Stored(editor.nextRow,
                                 Row(payload.FormulaID, payload.Amount, normalizedUnit(payload.Unit),
                                     payload.AromaChemicalID, payload.SubFormulaID)))
                   /\ editor' = [editor EXCEPT !.nextRow = @ + 1, !.resource = TRUE]
    /\ UNCHANGED <<formulas, chemicals, pending, caller, pc, formulaID, targetQuantity, locals,
                   history, check, parked, interleaved>>

\* PUT /app/api/formula-ingredients/{id}
updateFormulaIngredient ==
    /\ editor.op = "editor"
    /\ \E ingredientID \in 1..MaxRowId, payload \in Payloads :
          LET found == \E i \in 1..Len(ingredients) : ingredients[i].ID = ingredientID
              message == validateFormulaIngredientPayload(payload)
          IN  IF ~found \/ message # ""
              THEN UNCHANGED <<ingredients, editor>>
              ELSE /\ ingredients' =
                          [i \in 1..Len(ingredients) |->
                              IF ingredients[i].ID = ingredientID
                              THEN [ingredients[i] EXCEPT
                                       !.FormulaID = payload.FormulaID,
                                       !.Amount = payload.Amount,
                                       !.Unit = normalizedUnit(payload.Unit),
                                       !.AromaChemicalID = payload.AromaChemicalID,
                                       !.SubFormulaID = payload.SubFormulaID]
                              ELSE ingredients[i]]
                   /\ editor' = [editor EXCEPT !.resource = TRUE]
    /\ UNCHANGED <<formulas, chemicals, pending, caller, pc, formulaID, targetQuantity, locals,
                   history, check, parked, interleaved>>

\* DELETE /app/api/formula-ingredients/{id}
deleteFormulaIngredient ==
    /\ editor.op = "editor"
    /\ \E ingredientID \in 1..MaxRowId :
          /\ ingredients' = SelectSeq(ingredients, LAMBDA r : r.ID # ingredientID)
          /\ editor' = [editor EXCEPT !.resource = TRUE]
    /\ UNCHANGED <<formulas, chemicals, pending, caller, pc, formulaID, targetQuantity, locals,
                   history, check, parked, interleaved>>

\* a count of references that finds none
inUseUncounted(id) == 0

\* Model(&models.FormulaIngredient{}).Where("sub_formula_id = ?", id).Count(&inUse)
inUse(id) == Len(SelectSeq(ingredients, LAMBDA r : r.SubFormulaID = Ptr(id)))

\* tx.Where("formula_id = ?", id).Delete(&models.FormulaIngredient{})
rowsAfterDelete(id) == SelectSeq(ingredients, LAMBDA r : r.FormulaID # id)

\* FormulaDelete, one request from the form to the response
FormulaDelete ==
    /\ editor.op = "editor"
    /\ \E id \in 0..MaxFormulaId :
          LET answer(status, text) == [id |-> id, status |-> status, message |-> text]
          IN  IF id = 0
              THEN editor' = [editor EXCEPT !.reply = answer(400, "")]
                   /\ UNCHANGED <<formulas, ingredients>>
              ELSE IF ~HasKey(formulas, id)
              THEN editor' = [editor EXCEPT !.reply = answer(404, "")]
                   /\ UNCHANGED <<formulas, ingredients>>
              ELSE IF inUse(id) > 0
              THEN editor' = [editor EXCEPT !.reply = answer(200, M_in_use)]
                   /\ UNCHANGED <<formulas, ingredients>>
              ELSE /\ ingredients' = rowsAfterDelete(id)
                   /\ formulas' = [f \in DOMAIN formulas \ {id} |-> formulas[f]]
                   /\ editor' = [editor EXCEPT !.deleted = @ \cup {id},
                                               !.reply = answer(200, M_deleted)]
    /\ UNCHANGED <<chemicals, pending, caller, pc, formulaID, targetQuantity, locals, history,
                   check, parked, interleaved>>

\* the editor over a store of rows whose next ids follow the ids in use
Editing(rows, lastFormula) ==
    [op |-> "editor", nextFormula |-> lastFormula + 1, nextRow |-> Len(rows) + 1,
     deleted |-> {}, resource |-> FALSE, overlapped |-> FALSE, reply |-> NoReply,
     requests |-> <<Idle, Idle>>]

\* the rows a store of the editor starts with: at most MaxRowId - 1 of them, no formula
\* within its own composition
StartRows ==
    <<Row(1, Whole(1), S_g, Ptr(1), Nil), Row(1, Whole(1), S_g, Nil, Ptr(2)),
      Row(2, Whole(1), S_g, Ptr(1), Nil), Row(2, Whole(1), S_g, Nil, Ptr(3)),
      Row(3, Whole(1), S_g, Ptr(1), Nil)>>

EditorInit ==
    /\ \E picks \in {p \in SUBSET (1..Len(StartRows)) : Cardinality(p) <= MaxRowId - 1} :
          LET rows == Keyed(SelectSeq(StartRows, LAMBDA r : \E i \in picks : StartRows[i] = r))
          IN  /\ formulas = [f \in 1..(MaxFormulaId - 1) |-> AllFormulas[f]]
              /\ chemicals = ShelfMap
              /\ ingredients = rows
              /\ editor = Editing(rows, MaxFormulaId - 1)
    /\ NoReport
    /\ check = NoCheck
    /\ parked = NoCall
    /\ interleaved = FALSE

EditorNext ==
    \/ FormulaUpdate
    \/ createFormulaIngredient
    \/ updateFormulaIngredient
    \/ deleteFormulaIngredient

EditorSpec == EditorInit /\ [][EditorNext]_vars

\* stores of sub-formula rows to delete formulas from
DeleteInit ==
    /\ \E edges \in {e \in SUBSET EdgeRows : Cardinality(e) <= MaxEdges} :
          LET rows == Keyed(EdgeSeq(edges) \o <<Row(4, Whole(1), S_g, Ptr(1), Nil)>>)
          IN  /\ formulas = AllFormulas
              /\ chemicals = ShelfMap
              /\ ingredients = rows
              /\ editor = Editing(rows, Cardinality(FormulaIds))
    /\ NoReport
    /\ check = NoCheck
    /\ parked = NoCall
    /\ interleaved = FALSE

DeleteNext == FormulaDelete

DeleteSpec == DeleteInit /\ [][DeleteNext]_vars

----------------------------------------------------------------------------
(* two requests of FormulaUpdate at a time, each on its own formula *)

\* the ids of the stored rows of a formula, as its editor lists them
EntriesOf(id) == {ingredients[i].ID : i \in {j \in 1..Len(ingredients) : ingredients[j].FormulaID = id}}

\* FormulaUpdate up to its transaction: request slot edits the formula of its number
\* with the entries the editor lists for it
FormulaUpdateBegin ==
    /\ editor.op = "race"
    /\ \E slot \in {1, 2} :
          /\ editor.requests[slot].pc = "idle"
          /\ \E form \in {f \in Submissions({0} \cup EntriesOf(slot)) : f.id = slot /\ ~f.blank} :
                LET req == formulaUpdateRead(form.id, formulas[form.id].Name, form.action,
                                             form.form)
                IN  editor' = [editor EXCEPT
                        !.requests[slot] = IF req.writes THEN req @@ [pc |-> "write"]
                                           ELSE [pc |-> "done"],
                        !.overlapped = @ \/ (req.writes /\ editor.requests[3 - slot].pc = "write")]
    /\ UNCHANGED <<store, pending, caller, pc, formulaID, targetQuantity, locals, history,
                   check, parked, interleaved>>

\* the transaction of FormulaUpdate and the response
FormulaUpdateCommit ==
    /\ editor.op = "race"
    /\ \E slot \in {1, 2} :
          LET req == editor.requests[slot]
          IN  /\ req.pc = "write"
              /\ WithinBounds(req)
              /\ LET db == formulaUpdateWrite(req)
                 IN  /\ formulas' = db.formulas
                     /\ ingredients' = db.rows
                     /\ editor' = [editor EXCEPT !.nextRow = db.nextRow,
                                                 !.nextFormula = db.nextFormula,
                                                 !.requests[slot] = [pc |-> "done"]]
    /\ UNCHANGED <<chemicals, pending, caller, pc, formulaID, targetQuantity, locals, history,
                   check, parked, interleaved>>

RaceInit ==
    /\ \E picks \in {p \in SUBSET (1..Len(StartRows)) : Cardinality(p) <= MaxRowId - 1} :
          LET rows == Keyed(SelectSeq(StartRows, LAMBDA r : \E i \in picks : StartRows[i] = r))
          IN  /\ formulas = [f \in 1..(MaxFormulaId - 1) |-> AllFormulas[f]]
              /\ chemicals = ShelfMap
              /\ ingredients = rows
              /\ editor = [Editing(rows, MaxFormulaId - 1) EXCEPT !.op = "race"]
    /\ NoReport
    /\ check = NoCheck
    /\ parked = NoCall
    /\ interleaved = FALSE

RaceNext ==
    \/ FormulaUpdateBegin
    \/ FormulaUpdateCommit

RaceSpec == RaceInit /\ [][RaceNext]_vars

----------------------------------------------------------------------------
(* the store as the claims describe it *)

Last == history[Len(history)]
Returned == pc = "idle" /\ history # <<>>

OwnRows(f) == SelectSeq(ingredients, LAMBDA r : r.FormulaID = f)
Grams(r) == normalizeAmount(r.Amount, r.Unit)
IsSubRow(r) == r.SubFormulaID # Nil /\ r.SubFormulaID[1] # 0
IsChemRow(r) == r.AromaChemicalID # Nil

Children(f) == {OwnRows(f)[i].SubFormulaID[1] : i \in {j \in 1..Len(OwnRows(f)) : IsSubRow(OwnRows(f)[j])}}
RECURSIVE Closure(_)
Closure(seen) ==
    LET more == seen \cup UNION {Children(f) : f \in seen}
    IN  IF more = seen THEN seen ELSE Closure(more)
\* the formulas reachable from f through sub-formula rows, f included
ReachableFrom(f) == Closure({f})
OnCycle(f) == \E c \in Children(f) : f \in ReachableFrom(c)
CycleReachable(f) == \E g \in ReachableFrom(f) : OnCycle(g)

\* every row reachable from f has a positive amount and a chemical that is stored
Healthy(f) ==
    \A g \in ReachableFrom(f) : \A i \in 1..Len(OwnRows(g)) :
        LET r == OwnRows(g)[i]
        IN  /\ FGt(Grams(r), Zero)
            /\ IsChemRow(r) => HasKey(chemicals, r.AromaChemicalID[1])

RECURSIVE SumGrams(_, _)
SumGrams(rows, i) == IF i > Len(rows) THEN Zero ELSE FAdd(Grams(rows[i]), SumGrams(rows, i + 1))
\* the direct total of a formula: the grams its own rows declare
DirectTotal(f) == SumGrams(OwnRows(f), 1)

\* C1 as claimed: a call for an existing formula with rows and a target quantity
\* that is zero or negative returns InvalidQuantity, with no total memoized and no
\* amount accumulated
C1_Original ==
    (/\ Returned
     /\ Last.called
     /\ FLe(Last.target_quantity, Zero)
     /\ HasKey(formulas, Last.formula_id)
     /\ Len(OwnRows(Last.formula_id)) > 0)
    => (/\ Last.err = errBatchInvalidQuantity
        /\ totalsMemo = EmptyMap
        /\ accumulator = EmptyMap)

\* C1 as amended: the handler answers a zero or negative target quantity with 400
\* and never calls buildBatchProductionReportData for it; the function itself does
\* not check the quantity, and when it is called with such a quantity and nothing
\* else fails it returns a nil error and a report without rows
C1_HandlerRejectsQuantity ==
    /\ \A i \in 1..Len(history) :
          LET h == history[i]
          IN  /\ (h.via = "http" /\ FLe(h.target_quantity, Zero))
                    => (~h.called /\ h.status = 400 /\ h.data = EmptyData)
              /\ (h.called /\ FLe(h.target_quantity, Zero) /\ h.err = errNil)
                    => h.data.Ingredients = <<>>
              /\ (h.called /\ FLe(h.target_quantity, Zero) /\ h.err = errBatchInvalidQuantity)
                    => h.at = "total"
    /\ (pc # "idle" /\ caller = "http") => ~FLe(targetQuantity, Zero)

C1_Witness ==
    /\ Returned
    /\ Last.via = "http"
    /\ FLe(Last.target_quantity, Zero)
    /\ Last.formula_id # 0
    /\ Last.status = 400
    /\ ~Last.called

\* C2 as claimed: a call with a positive target quantity for an existing formula
\* that lies on a cycle of sub-formula rows, every formula reachable from it having
\* rows, returns CircularReference
C2_Original ==
    \A i \in 1..Len(history) :
        LET h == history[i]
        IN  (/\ h.called
             /\ FGt(h.target_quantity, Zero)
             /\ HasKey(formulas, h.formula_id)
             /\ \A g \in ReachableFrom(h.formula_id) : Len(OwnRows(g)) > 0
             /\ OnCycle(h.formula_id))
            => h.err = errBatchCircularReference

\* C2 as amended: the same, provided every row reachable from the target has a
\* positive amount and every chemical such a row names is stored; the call returns
\* CircularReference and no report
C2_CycleIsReported ==
    \A i \in 1..Len(history) :
        LET h == history[i]
        IN  (/\ h.called
             /\ FGt(h.target_quantity, Zero)
             /\ HasKey(formulas, h.formula_id)
             /\ \A g \in ReachableFrom(h.formula_id) : Len(OwnRows(g)) > 0
             /\ OnCycle(h.formula_id)
             /\ Healthy(h.formula_id))
            => (h.err = errBatchCircularReference /\ h.data = EmptyData)

C2_Witness ==
    /\ Returned
    /\ Last.called
    /\ Last.err = errBatchCircularReference
    /\ OnCycle(Last.formula_id)
    /\ Healthy(Last.formula_id)
    /\ Last.formula_id \notin Children(Last.formula_id)

\* C3: a call for a formula from which no cycle of sub-formula rows can be reached
\* never returns CircularReference, also when a formula is reached twice
C3_NoCycleNoCircularError ==
    \A i \in 1..Len(history) :
        LET h == history[i]
        IN  (h.called /\ ~CycleReachable(h.formula_id)) => h.err # errBatchCircularReference

\* a report for a formula that reaches another one along two branches or through two
\* rows of one formula
C3_Witness ==
    /\ Returned
    /\ Last.called
    /\ Last.err = errNil
    /\ ~CycleReachable(Last.formula_id)
    /\ \E g \in ReachableFrom(Last.formula_id) :
          Cardinality({k \in 1..Len(ingredients) :
              /\ ingredients[k].FormulaID \in ReachableFrom(Last.formula_id)
              /\ IsSubRow(ingredients[k])
              /\ FGt(Grams(ingredients[k]), Zero)
              /\ ingredients[k].SubFormulaID[1] = g}) >= 2

\* the grams of chemical c that the rows of f contribute, along every path of rows
\* the traversal follows: rows with a positive amount, and sub-formula rows whose
\* sub-formula has a positive direct total
RECURSIVE LiveSum(_, _), LiveRows(_, _, _)
LiveRows(rows, i, c) ==
    IF i > Len(rows) THEN Zero
    ELSE LET r == rows[i]
             mine == IF ~FGt(Grams(r), Zero) THEN Zero
                     ELSE IF IsChemRow(r)
                          THEN (IF r.AromaChemicalID[1] = c THEN Grams(r) ELSE Zero)
                     ELSE IF IsSubRow(r) /\ FGt(DirectTotal(r.SubFormulaID[1]), Zero)
                          THEN FMul(FDiv(Grams(r), DirectTotal(r.SubFormulaID[1])),
                                    LiveSum(r.SubFormulaID[1], c))
                     ELSE Zero
         IN  FAdd(mine, LiveRows(rows, i + 1, c))
LiveSum(f, c) == LiveRows(OwnRows(f), 1, c)

\* the same sum along every path of rows, whatever the amounts
RECURSIVE EverySum(_, _), EveryRows(_, _, _)
EveryRows(rows, i, c) ==
    IF i > Len(rows) THEN Zero
    ELSE LET r == rows[i]
             mine == IF IsChemRow(r)
                     THEN (IF r.AromaChemicalID[1] = c THEN Grams(r) ELSE Zero)
                     ELSE IF IsSubRow(r)
                          THEN FMul(FDiv(Grams(r), DirectTotal(r.SubFormulaID[1])),
                                    EverySum(r.SubFormulaID[1], c))
                     ELSE Zero
         IN  FAdd(mine, EveryRows(rows, i + 1, c))
EverySum(f, c) == EveryRows(OwnRows(f), 1, c)

RowsNamed(rows, c) == {k \in 1..Len(rows) : rows[k].IngredientName = chemicals[c].IngredientName}
Succeeded(h) == h.called /\ h.err = errNil

\* C4 as claimed: in a successful report for a positive target quantity, on a store
\* without a reachable cycle where every reachable formula has a positive direct
\* total, no chemical has two rows and a chemical's row carries
\* the sum over every path of its rows' amounts times the sub-formula factors, and
\* that sum times target / base total
C4_Original ==
    (Returned /\ Succeeded(Last) /\ FGt(Last.target_quantity, Zero)
        /\ ~CycleReachable(Last.formula_id)
        /\ \A g \in ReachableFrom(Last.formula_id) : FGt(DirectTotal(g), Zero))
    => \A c \in DOMAIN chemicals :
          LET rows == Last.data.Ingredients
              e == EverySum(Last.formula_id, c)
          IN  /\ Cardinality(RowsNamed(rows, c)) <= 1
              /\ \A k \in RowsNamed(rows, c) :
                    /\ rows[k].BaseQuantity = e
                    /\ rows[k].FinalQuantity
                         = FMul(e, FDiv(Last.target_quantity, DirectTotal(Last.formula_id)))

\* C4 as amended: in a successful report for a positive target quantity the base
\* total is the sum of all the target's rows; a chemical has exactly one row when its
\* sum over the paths of rows with positive amounts through sub-formulas with
\* positive direct totals is positive, and no row otherwise; the row carries that sum
\* as base quantity and that sum times target / base total as final quantity
C4_PathSums ==
    (Returned /\ Succeeded(Last) /\ FGt(Last.target_quantity, Zero))
    => LET rows == Last.data.Ingredients
           total == DirectTotal(Last.formula_id)
       IN  /\ Last.data.BaseBatchQuantity = total
           /\ Len(rows) = Cardinality({c \in DOMAIN chemicals :
                                         FGt(LiveSum(Last.formula_id, c), Zero)})
           /\ \A c \in DOMAIN chemicals :
                 LET e == LiveSum(Last.formula_id, c)
                 IN  IF FGt(e, Zero)
                     THEN /\ Cardinality(RowsNamed(rows, c)) = 1
                          /\ \A k \in RowsNamed(rows, c) :
                                /\ rows[k].BaseQuantity = e
                                /\ rows[k].FinalQuantity
                                     = FMul(e, FDiv(Last.target_quantity, total))
                     ELSE RowsNamed(rows, c) = {}

\* the report of the test: 26 g and 4 g for the target 30 g
C4_Witness ==
    /\ Returned
    /\ Succeeded(Last)
    /\ ingredients = FixtureRows
    /\ Last.target_quantity = Whole(30)
    /\ Len(Last.data.Ingredients) = 2
    /\ Last.data.Ingredients[1].FinalQuantity = Whole(26)
    /\ Last.data.Ingredients[2].FinalQuantity = Whole(4)

\* two calls in a row for one formula, the second for twice the quantity of the first
Doubled(i) ==
    /\ i + 1 <= Len(history)
    /\ history[i].called /\ history[i + 1].called
    /\ history[i].formula_id = history[i + 1].formula_id
    /\ FGt(history[i].target_quantity, Zero)
    /\ IsFinite(history[i].target_quantity)
    /\ history[i + 1].target_quantity = FMul(Whole(2), history[i].target_quantity)

DistinctNames(rows) ==
    \A j, k \in 1..Len(rows) : rows[j].IngredientName = rows[k].IngredientName => j = k

\* C5 as claimed, for reports of at most two rows whose names differ beyond case:
\* the report for 2Q has the rows of the report for Q, row by row, each final
\* quantity doubled
C5_Original ==
    \A i \in 1..Len(history) :
        (/\ Doubled(i)
         /\ Succeeded(history[i])
         /\ Len(history[i].data.Ingredients) <= 2
         /\ \A j, k \in 1..Len(history[i].data.Ingredients) :
               j # k => ToLower(history[i].data.Ingredients[j].IngredientName)
                           # ToLower(history[i].data.Ingredients[k].IngredientName))
        => LET one == history[i].data.Ingredients
               two == history[i + 1].data.Ingredients
           IN  /\ Succeeded(history[i + 1])
               /\ Len(two) = Len(one)
               /\ \A k \in 1..Len(one) :
                     /\ two[k].IngredientName = one[k].IngredientName
                     /\ two[k].BaseQuantity = one[k].BaseQuantity
                     /\ two[k].FinalQuantity = FMul(Whole(2), one[k].FinalQuantity)

\* C5 as amended: the report for 2Q succeeds when the report for Q does, has the
\* same base total, twice the scale factor, and for each ingredient of the report
\* for Q one row with the same name, CAS number, pyramid position, base quantity and
\* unit and twice the final quantity, and no other row; the rows may stand in
\* another order
C5_ScalingLinearity ==
    \A i \in 1..Len(history) :
        (Doubled(i) /\ Succeeded(history[i]))
        => LET one == history[i].data.Ingredients
               two == history[i + 1].data.Ingredients
           IN  /\ Succeeded(history[i + 1])
               /\ history[i + 1].data.BaseBatchQuantity = history[i].data.BaseBatchQuantity
               /\ history[i + 1].data.ScaleFactor = FMul(Whole(2), history[i].data.ScaleFactor)
               /\ Len(two) = Len(one)
               /\ DistinctNames(one)
               /\ DistinctNames(two)
               /\ \A j \in 1..Len(one) : \E k \in 1..Len(two) :
                     two[k] = [one[j] EXCEPT !.Order = two[k].Order,
                                             !.FinalQuantity = FMul(Whole(2), one[j].FinalQuantity)]

\* two reports of several rows, the second for twice the quantity, in another order
C5_Witness ==
    /\ Returned
    /\ Len(history) = 2
    /\ Doubled(1)
    /\ Succeeded(history[1])
    /\ Len(history[1].data.Ingredients) >= 2
    /\ \E k \in 1..Len(history[1].data.Ingredients) :
          history[2].data.Ingredients[k].IngredientName
             # history[1].data.Ingredients[k].IngredientName

\* C6: two calls in a row for the same formula and target quantity that read the
\* same clock value return the same error and the same report, rows in the same order
C6_Determinism ==
    \A i \in 1..Len(history) :
        (/\ i + 1 <= Len(history)
         /\ history[i].called /\ history[i + 1].called
         /\ history[i].formula_id = history[i + 1].formula_id
         /\ history[i].target_quantity = history[i + 1].target_quantity
         /\ history[i].data.RunDate = history[i + 1].data.RunDate)
        => (/\ history[i].err = history[i + 1].err
            /\ history[i].data = history[i + 1].data)

\* the rank the claim gives a canonical pyramid position
ClaimedRank(p) ==
    IF p = S_base THEN 0
    ELSE IF p = S_heart_base THEN 1
    ELSE IF p = S_heart THEN 2
    ELSE IF p = S_top_heart THEN 3
    ELSE IF p = S_top THEN 4
    ELSE 5

Within(x, y) == almostEqual(x.FinalQuantity, y.FinalQuantity)
SameRank(x, y) == ClaimedRank(x.Pyramid) = ClaimedRank(y.Pyramid)

\* being within 1e-6 is transitive among the final quantities of each rank
TiesTransitive(rows) ==
    \A i, j, k \in 1..Len(rows) :
        (SameRank(rows[i], rows[j]) /\ SameRank(rows[j], rows[k])
            /\ Within(rows[i], rows[j]) /\ Within(rows[j], rows[k]))
        => Within(rows[i], rows[k])

RankOrdered(x, y) == ClaimedRank(x.Pyramid) <= ClaimedRank(y.Pyramid)
QuantityOrdered(x, y) ==
    /\ SameRank(x, y) => (FGt(x.FinalQuantity, y.FinalQuantity) \/ Within(x, y))
    /\ (SameRank(x, y) /\ Within(x, y))
          => ~StrLess(ToLower(y.IngredientName), ToLower(x.IngredientName))

\* C7 as claimed: in every report any two rows i before j are in rank order, in
\* quantity order within a rank, and in name order within 1e-6
C7_Original ==
    \A h \in 1..Len(history) :
        Succeeded(history[h])
        => \A i, j \in 1..Len(history[h].data.Ingredients) :
              i < j => /\ RankOrdered(history[h].data.Ingredients[i], history[h].data.Ingredients[j])
                       /\ QuantityOrdered(history[h].data.Ingredients[i], history[h].data.Ingredients[j])

\* what the sort does establish: any two rows i before j are in rank order, and
\* also in quantity and name order when being within 1e-6 is transitive among the
\* final quantities of each rank of the report
SortedUnderTransitiveTies ==
    \A h \in 1..Len(history) :
        Succeeded(history[h])
        => LET rows == history[h].data.Ingredients
           IN  \A i, j \in 1..Len(rows) :
                  i < j => /\ RankOrdered(rows[i], rows[j])
                           /\ TiesTransitive(rows) => QuantityOrdered(rows[i], rows[j])

\* C8: a call with a positive target quantity for an existing formula that owns no
\* row returns EmptyComposition and no report
C8_EmptyTarget ==
    \A i \in 1..Len(history) :
        LET h == history[i]
        IN  (/\ h.called
             /\ FGt(h.target_quantity, Zero)
             /\ HasKey(formulas, h.formula_id)
             /\ Len(OwnRows(h.formula_id)) = 0)
            => (h.err = errBatchEmptyComposition /\ h.data = EmptyData)

C8_Witness ==
    /\ Returned
    /\ Last.called
    /\ FGt(Last.target_quantity, Zero)
    /\ HasKey(formulas, Last.formula_id)
    /\ Len(OwnRows(Last.formula_id)) = 0
    /\ ingredients # <<>>
    /\ Last.err = errBatchEmptyComposition

\* some row reachable from f names a sub-formula that owns no row
ReachesEmpty(f) == \E g \in ReachableFrom(f) : g # f /\ Len(OwnRows(g)) = 0

\* C9 as claimed: on a store without a reachable cycle, a call for an existing
\* formula with rows that reaches a sub-formula without rows returns
\* EmptyComposition and no report
C9_Original ==
    \A i \in 1..Len(history) :
        LET h == history[i]
        IN  (/\ h.called
             /\ HasKey(formulas, h.formula_id)
             /\ ~CycleReachable(h.formula_id)
             /\ ReachesEmpty(h.formula_id))
            => (h.err = errBatchEmptyComposition /\ h.data = EmptyData)

\* C9 as amended: the same, provided every row reachable from the target has a
\* positive amount and every chemical such a row names is stored
C9_EmptySubFormula ==
    \A i \in 1..Len(history) :
        LET h == history[i]
        IN  (/\ h.called
             /\ HasKey(formulas, h.formula_id)
             /\ ~CycleReachable(h.formula_id)
             /\ ReachesEmpty(h.formula_id)
             /\ Healthy(h.formula_id))
            => (h.err = errBatchEmptyComposition /\ h.data = EmptyData)

\* the sub-formula without rows is not stored either, and the error comes from the
\* traversal
C9_Witness ==
    /\ Returned
    /\ Last.called
    /\ HasKey(formulas, Last.formula_id)
    /\ ~CycleReachable(Last.formula_id)
    /\ Healthy(Last.formula_id)
    /\ \E g \in ReachableFrom(Last.formula_id) :
          g # Last.formula_id /\ Len(OwnRows(g)) = 0 /\ ~HasKey(formulas, g)
    /\ Last.err = errBatchEmptyComposition
    /\ Last.at = "total" \/ Last.at = "accumulate"

\* C10: a call for a formula id that is not stored returns FormulaNotFound and no
\* report, decided at the lookup of the formula with no row read, no total computed
\* and no amount accumulated, whatever the rows and the target quantity
C10_NotFoundFirst ==
    /\ \A i \in 1..Len(history) :
          LET h == history[i]
          IN  (h.called /\ ~HasKey(formulas, h.formula_id))
              => (h.err = errBatchFormulaNotFound /\ h.data = EmptyData /\ h.at = "find")
    /\ (pc # "idle" /\ pc # "find")  => HasKey(formulas, formulaID)
    /\ (Returned /\ Last.called /\ Last.err = errBatchFormulaNotFound)
          => (byFormula = EmptyMap /\ totalsMemo = EmptyMap /\ accumulator = EmptyMap)

\* the missing formula owns rows, lies on a cycle, and the quantity is negative
C10_Witness ==
    /\ Returned
    /\ Last.called
    /\ ~HasKey(formulas, Last.formula_id)
    /\ OnCycle(Last.formula_id)
    /\ FLt(Last.target_quantity, Zero)
    /\ Last.err = errBatchFormulaNotFound

\* C11: a call that returns an error returns a report value with no rows and no
\* metadata, also when amounts were accumulated before the failing row
C11_ErrorReturnsNothing ==
    \A i \in 1..Len(history) :
        LET h == history[i]
        IN  (h.called /\ h.err # errNil)
            => /\ h.data.Ingredients = <<>>
               /\ h.data.FormulaName = <<>>
               /\ h.data.FormulaVersion = 0
               /\ h.data.TargetQuantity = Zero
               /\ h.data.TargetUnit = <<>>
               /\ h.data.BaseBatchQuantity = Zero
               /\ h.data.BaseBatchUnit = <<>>
               /\ h.data.ScaleFactor = Zero
               /\ h.data.LotNumber = <<>>
               /\ h.data.RunDate = 0

\* an error from the traversal after an amount was accumulated
C11_Witness ==
    /\ Returned
    /\ Last.called
    /\ Last.err # errNil
    /\ Last.at = "accumulate"
    /\ accumulator # EmptyMap

\* C13: in a successful report the Order of the k-th row is k, for k = 1..n
C13_OrderIsPosition ==
    \A i \in 1..Len(history) :
        Succeeded(history[i])
        => \A k \in 1..Len(history[i].data.Ingredients) :
              history[i].data.Ingredients[k].Order = k

C13_Witness ==
    /\ Returned
    /\ Succeeded(Last)
    /\ Len(Last.data.Ingredients) >= 3
    /\ Last.data.Ingredients[3].Order = 3

\* C15: every total the call holds, memoized or as base total, is the sum of the
\* normalized amounts of the rows the formula owns, a sub-formula row counted at
\* its declared amount
C15_TotalIsDirectSum ==
    /\ \A id \in DOMAIN totalsMemo : totalsMemo[id] = DirectTotal(id)
    /\ pc \in {"accumulate", "assemble"} => baseTotal = DirectTotal(formulaID)

\* the total of a formula that holds a sub-formula whose own total differs from
\* the amount declared for it
C15_Witness ==
    \E id \in DOMAIN totalsMemo : \E k \in 1..Len(OwnRows(id)) :
        /\ IsSubRow(OwnRows(id)[k])
        /\ Len(OwnRows(OwnRows(id)[k].SubFormulaID[1])) > 0
        /\ DirectTotal(OwnRows(id)[k].SubFormulaID[1]) # Grams(OwnRows(id)[k])

\* C16: within one call the rows of a formula are summed at most once, a formula
\* whose rows were summed has a memo entry, and a memo entry neither disappears nor
\* changes until the call is over
C16_MemoizedOnce ==
    /\ [](\A id \in DOMAIN reads : reads[id] <= 1 /\ HasKey(totalsMemo, id))
    /\ [][pc' # "find" => \A id \in DOMAIN totalsMemo :
                            HasKey(totalsMemo', id) /\ totalsMemo'[id] = totalsMemo[id]]_vars

\* a report for a formula that asks for the total of one sub-formula twice
C16_Witness ==
    /\ Returned
    /\ Succeeded(Last)
    /\ \E g \in DOMAIN reads :
          /\ reads[g] = 1
          /\ Cardinality({k \in 1..Len(ingredients) :
                /\ ingredients[k].FormulaID \in ReachableFrom(Last.formula_id)
                /\ IsSubRow(ingredients[k])
                /\ FGt(Grams(ingredients[k]), Zero)
                /\ ingredients[k].SubFormulaID[1] = g}) >= 2

\* C17: a call for an existing formula that owns rows whose direct total is zero or
\* negative returns InvalidQuantity from the check of the base total, with nothing
\* accumulated and no formula entered
C17_BaseTotalNotPositive ==
    /\ \A i \in 1..Len(history) :
          LET h == history[i]
          IN  (/\ h.called
               /\ HasKey(formulas, h.formula_id)
               /\ Len(OwnRows(h.formula_id)) > 0
               /\ FLe(DirectTotal(h.formula_id), Zero))
              => (h.err = errBatchInvalidQuantity /\ h.data = EmptyData /\ h.at = "total")
    /\ (Returned /\ Last.called /\ Last.at = "total")
          => (accumulator = EmptyMap /\ traversal = EmptyMap /\ frames = <<>>)

\* the rows cancel to zero and one of them is positive
C17_Witness ==
    /\ Returned
    /\ Last.called
    /\ HasKey(formulas, Last.formula_id)
    /\ DirectTotal(Last.formula_id) = Zero
    /\ \E k \in 1..Len(OwnRows(Last.formula_id)) : FGt(Grams(OwnRows(Last.formula_id)[k]), Zero)
    /\ Last.err = errBatchInvalidQuantity

\* C18: in a successful report the scale factor is target / base batch, every row
\* has final = base x scale factor, final > 0 and the unit g, and an accumulated
\* chemical has a row exactly when its amount times the scale factor is positive
C18_ScaleAndRows ==
    /\ \A i \in 1..Len(history) :
          Succeeded(history[i])
          => LET d == history[i].data
             IN  /\ d.ScaleFactor = FDiv(d.TargetQuantity, d.BaseBatchQuantity)
                 /\ d.TargetQuantity = history[i].target_quantity
                 /\ \A k \in 1..Len(d.Ingredients) :
                       /\ d.Ingredients[k].FinalQuantity
                            = FMul(d.Ingredients[k].BaseQuantity, d.ScaleFactor)
                       /\ FGt(d.Ingredients[k].FinalQuantity, Zero)
                       /\ d.Ingredients[k].Unit = <<103>>
    /\ (Returned /\ Succeeded(Last))
          => /\ \A c \in DOMAIN accumulator :
                   (accumulator[c].Chemical # Nil
                      /\ FGt(FMul(accumulator[c].BaseAmount, Last.data.ScaleFactor), Zero))
                   <=> \E k \in 1..Len(Last.data.Ingredients) :
                          /\ Last.data.Ingredients[k].IngredientName
                               = accumulator[c].Chemical[1].IngredientName
                          /\ Last.data.Ingredients[k].BaseQuantity = accumulator[c].BaseAmount
             /\ Len(Last.data.Ingredients) <= Cardinality(DOMAIN accumulator)

\* a report with rows under a scale factor other than 1
C18_Witness ==
    /\ Returned
    /\ Succeeded(Last)
    /\ Len(Last.data.Ingredients) >= 2
    /\ Last.data.ScaleFactor # Whole(1)
    /\ Last.data.Ingredients[1].FinalQuantity # Last.data.Ingredients[1].BaseQuantity

\* the traversal stands before a row whose computed amount is zero or negative
BeforeSkippedRow ==
    /\ pc = "accumulate"
    /\ frames # <<>>
    /\ Top.idx \in 1..Len(RowsOf(byFormula, Top.formulaID))
    /\ FLe(FMul(Grams(RowsOf(byFormula, Top.formulaID)[Top.idx]), Top.factor), Zero)

\* C20: the step over a row whose computed amount is zero or negative moves to the
\* next row and changes nothing else: no accumulator entry, no total requested, no
\* formula entered, no error
C20_SkippedRowNoEffect ==
    [][BeforeSkippedRow
        => /\ frames' = [frames EXCEPT ![Len(frames)].idx = @ + 1]
           /\ UNCHANGED <<accumulator, totalsMemo, totalStack, traversal, reads, history, pc>>]_vars

\* the traversal has passed a row with a non-positive amount that names a
\* sub-formula without rows or a chemical that is not stored
C20_Witness ==
    /\ pc = "accumulate"
    /\ frames # <<>>
    /\ Top.idx >= 2
    /\ Top.idx - 1 <= Len(RowsOf(byFormula, Top.formulaID))
    /\ LET r == RowsOf(byFormula, Top.formulaID)[Top.idx - 1]
       IN  /\ FLe(FMul(Grams(r), Top.factor), Zero)
           /\ \/ IsSubRow(r) /\ Len(OwnRows(r.SubFormulaID[1])) = 0
              \/ IsChemRow(r) /\ ~HasKey(chemicals, r.AromaChemicalID[1])

\* the formulas reachable from a set of formulas along edges of graph, the set included
RECURSIVE GraphClosure(_, _)
GraphClosure(graph, set) ==
    LET next == set \cup UNION {{graph[f][i] : i \in 1..Len(graph[f])} :
                                    f \in set \cap DOMAIN graph}
    IN  IF next = set THEN set ELSE GraphClosure(graph, next)

\* C12: a finished check of (parent, candidate) answers true exactly when both are
\* non-zero and parent is candidate or is reachable from candidate along the edges
\* of the graph; a check that entered the loop finishes, on cyclic graphs too
C12_CycleCheck ==
    /\ [](check.op = "cycle" /\ check.pc = "done"
            => (check.result
                  <=> /\ check.parentID # 0
                      /\ check.candidateID # 0
                      /\ \/ check.parentID = check.candidateID
                         \/ check.parentID \in GraphClosure(check.graph, {check.candidateID})))
    /\ ((check.op = "cycle" /\ check.pc = "loop") ~> (check.op = "cycle" /\ check.pc = "done"))

\* a check answered false on a graph in which the candidate reaches a cycle and a
\* formula with two sub-formulas
C12_Witness ==
    /\ check.op = "cycle"
    /\ check.pc = "done"
    /\ ~check.result
    /\ check.parentID # 0
    /\ \E f \in GraphClosure(check.graph, {check.candidateID}) :
          /\ f \in DOMAIN check.graph
          /\ Len(check.graph[f]) >= 2
    /\ \E f \in GraphClosure(check.graph, {check.candidateID}) :
          /\ f \in DOMAIN check.graph
          /\ \E i \in 1..Len(check.graph[f]) :
                f \in GraphClosure(check.graph, {check.graph[f][i]})

\* the spellings of mg and kg among the units handed to normalizeAmount
MgSpellings == {<<109, 103>>, <<32, 77, 71, 32>>, <<9, 109, 71, 10>>}
KgSpellings == {<<107, 103>>, <<75, 103>>}

\* C19: normalizeAmount answers amount / 1000 for the spellings of mg, amount x 1000
\* for those of kg and the amount itself for every other unit, and
\* normalize(1000 a, "mg") = normalize(a, "g"), normalize(a, "kg") = normalize(1000 a, "g")
C19_Normalize ==
    check.op = "normalize"
    => /\ IsFinite(check.result)
       /\ check.unit \in MgSpellings => FMul(check.result, Whole(1000)) = check.amount
       /\ check.unit \in KgSpellings
            => check.result = Frac(check.amount[1] * 1000, check.amount[2])
       /\ check.unit \notin (MgSpellings \cup KgSpellings) => check.result = check.amount
       /\ normalizeAmount(FMul(Whole(1000), check.amount), <<109, 103>>)
             = normalizeAmount(check.amount, <<103>>)
       /\ normalizeAmount(check.amount, <<107, 103>>)
             = normalizeAmount(FMul(Whole(1000), check.amount), <<103>>)

\* milligrams written with blanks and capitals
C19_Witness ==
    /\ check.op = "normalize"
    /\ check.unit = <<32, 77, 71, 32>>
    /\ check.amount = Whole(2)
    /\ check.result = Frac(1, 500)

\* the reports a call can return that returned rows when it ran alone: the rows
\* collected in any order of the accumulator map, sorted and numbered
AloneRows(rows) ==
    {numbered(sortBatchProductionIngredients([k \in 1..Len(rows) |-> rows[o[k]]])) :
        o \in Orders(1..Len(rows))}

\* h is a result the call that returned alone could have returned under the clock of h
ResultOfAlone(h, alone) ==
    /\ h.called = alone.called
    /\ h.err = alone.err
    /\ h.at = alone.at
    /\ h.status = alone.status
    /\ h.data.Ingredients \in AloneRows(alone.data.Ingredients)
    /\ [h.data EXCEPT !.Ingredients = <<>>, !.RunDate = 0, !.LotNumber = <<>>]
         = [alone.data EXCEPT !.Ingredients = <<>>, !.RunDate = 0, !.LotNumber = <<>>]
    /\ h.data.RunDate = alone.data.RunDate => h.data.LotNumber = alone.data.LotNumber

\* the formulas marked in a path guard
MarkedIn(path) == {id \in DOMAIN path : path[id]}

\* C14: each of two calls made concurrently returns a result it returns when made
\* alone on the same store, and while a goroutine is inside the traversal its path
\* guard marks formulas of its own activations only
C14_ConcurrentCallsIsolated ==
    /\ \A i \in 3..Len(history) : \A j \in 1..2 :
          (/\ history[i].via = history[j].via
           /\ history[i].formula_id = history[j].formula_id
           /\ history[i].target_quantity = history[j].target_quantity)
          => ResultOfAlone(history[i], history[j])
    /\ pc = "accumulate"
         => MarkedIn(traversal) \subseteq {frames[k].formulaID : k \in 1..Len(frames)}
    /\ parked.pc = "accumulate"
         => MarkedIn(parked.traversal)
              \subseteq {parked.frames[k].formulaID : k \in 1..Len(parked.frames)}

\* both calls returned rows after the goroutines were switched while each was inside
\* the traversal with formulas marked
C14_Witness ==
    /\ interleaved
    /\ Len(history) = 4
    /\ Succeeded(history[3])
    /\ Succeeded(history[4])
    /\ Len(history[3].data.Ingredients) >= 2
    /\ Len(history[4].data.Ingredients) >= 2

\* the traversal stands before a row of positive computed amount that carries both
\* references or none
BeforeMalformedRow ==
    /\ pc = "accumulate"
    /\ frames # <<>>
    /\ Top.idx \in 1..Len(RowsOf(byFormula, Top.formulaID))
    /\ LET r == RowsOf(byFormula, Top.formulaID)[Top.idx]
       IN  /\ (r.AromaChemicalID = Nil) = (r.SubFormulaID = Nil)
           /\ FGt(FMul(Grams(r), Top.factor), Zero)

\* C21: the step over a row with both references or none adds nothing to the
\* accumulator, asks for no total and enters no sub-formula
C21_MalformedRowSkipped ==
    [][BeforeMalformedRow
        => /\ accumulator' = accumulator
           /\ totalsMemo' = totalsMemo
           /\ reads' = reads
           /\ frames' = [frames EXCEPT ![Len(frames)].idx = @ + 1]]_vars

\* what the code does with such a row: a row with no reference is stepped over, and
\* a row with both references enters no sub-formula and asks for no total
MalformedRowNotExpanded ==
    [][BeforeMalformedRow
        => /\ totalsMemo' = totalsMemo
           /\ reads' = reads
           /\ Len(frames') <= Len(frames)
           /\ RowsOf(byFormula, Top.formulaID)[Top.idx].AromaChemicalID = Nil
                => accumulator' = accumulator]_vars

\* the activations of accumulateFormulaIngredients are never deeper than the number
\* of formulas plus the one the path guard is about to refuse
MaxDepth == Cardinality(FormulaIds) + 1

\* more than twice the position of any activation in its rows
Radix == 2 * (Len(ingredients) + 2)

RECURSIVE Power(_, _)
Power(b, n) == IF n = 0 THEN 1 ELSE b * Power(b, n - 1)

\* the place of the traversal in the depth-first order of the rows: one digit per
\* activation, outermost first; an activation that waits for a sub-formula counts as
\* standing inside the row it has stepped over
TraversalPlace ==
    LET digit(i) == IF i = Len(frames) THEN 2 * frames[i].idx ELSE 2 * frames[i].idx - 1
        RECURSIVE place(_)
        place(i) == IF i > Len(frames) THEN 0
                    ELSE digit(i) * Power(Radix, MaxDepth - i) + place(i + 1)
    IN  place(1)

\* how far the running call has come
Progress ==
    IF pc = "find" THEN 0
    ELSE IF pc = "load" THEN 1
    ELSE IF pc = "total" THEN 2
    ELSE IF pc = "accumulate" THEN 3 + TraversalPlace
    ELSE 4 + Power(Radix, MaxDepth)

\* the guard of one of the steps of a call holds: the steps before and after the
\* traversal ask for their position only, and inside the traversal the innermost
\* activation is entered (idx = 0), stands at a row, or is past its last row
CallCanStep ==
    \/ pc \in {"find", "load", "total", "assemble"}
    \/ pc = "accumulate" /\ frames # <<>> /\ Top.idx >= 0

\* C24: every call of buildBatchProductionReportData returns, with a report or with
\* an error, on stores with cycles and self-references too: a call that has not
\* returned can take a step, every step that does not return moves the call forward
\* in a progress measure, and the measure is bounded
C24_CallReturns ==
    /\ [](pc # "idle" => CallCanStep)
    /\ [](pc # "idle" => (Len(frames) <= MaxDepth /\ Progress <= 4 + Power(Radix, MaxDepth)))
    /\ [][(pc # "idle" /\ pc' # "idle") => Progress' > Progress]_vars

\* a call has returned on a store where the target reaches a cycle through a
\* sub-formula that was entered
C24_Witness ==
    /\ Returned
    /\ Last.called
    /\ CycleReachable(Last.formula_id)
    /\ Last.at = "accumulate"
    /\ Cardinality(MarkedIn(traversal)) >= 2

\* C25 as claimed: within one call a formula is entered by the traversal at most
\* once: a formula that gets its mark has no entry in the path guard yet (the guard
\* keeps the entry, set to false, of every formula it has left)
C25_Original ==
    [][\A id \in DOMAIN traversal' :
          (traversal'[id] /\ ~Marked(traversal, id)) => ~HasKey(traversal, id)]_vars

\* the activations that have passed the path guard
EnteredFrames == {k \in 1..Len(frames) : frames[k].idx >= 1}

\* C25, amended: no formula is expanded inside an expansion of itself: the
\* activations in progress belong to pairwise distinct formulas reachable from the
\* target, these are the formulas marked in the path guard, and the nesting is never
\* deeper than the number of formulas reachable from the target
C25_ExpandedOncePerPath ==
    pc = "accumulate"
    => /\ \A j, k \in EnteredFrames : frames[j].formulaID = frames[k].formulaID => j = k
       /\ \A k \in 1..Len(frames) : k < Len(frames) => k \in EnteredFrames
       /\ MarkedIn(traversal) = {frames[k].formulaID : k \in EnteredFrames}
       /\ \A k \in 1..Len(frames) : frames[k].formulaID \in ReachableFrom(formulaID)
       /\ Cardinality(EnteredFrames) <= Cardinality(ReachableFrom(formulaID))

\* a formula is expanded again, two levels below the target, after the traversal
\* has left it once
C25_Witness ==
    /\ pc = "accumulate"
    /\ Len(frames) >= 3
    /\ Top.idx >= 1
    /\ \E id \in DOMAIN traversal : ~traversal[id]
    /\ \E k \in 1..Len(ingredients) :
          /\ ingredients[k].FormulaID # frames[Len(frames) - 1].formulaID
          /\ ingredients[k].FormulaID \in ReachableFrom(formulaID)
          /\ IsSubRow(ingredients[k])
          /\ ingredients[k].SubFormulaID[1] = Top.formulaID
          /\ HasKey(traversal, ingredients[k].FormulaID)
          /\ ~traversal[ingredients[k].FormulaID]

\* the traversal stands before a row of positive computed amount that names a
\* chemical, the row carries no chemical record and the chemical is not stored
BeforeUnresolvedRow ==
    /\ pc = "accumulate"
    /\ frames # <<>>
    /\ Top.idx \in 1..Len(RowsOf(byFormula, Top.formulaID))
    /\ LET r == RowsOf(byFormula, Top.formulaID)[Top.idx]
       IN  /\ r.AromaChemicalID # Nil
           /\ r.AromaChemical = Nil
           /\ ~HasKey(chemicals, r.AromaChemicalID[1])
           /\ FGt(FMul(Grams(r), Top.factor), Zero)

\* C26: the step over such a row ends the call with the error of the lookup and an
\* empty report (status 500 over http); nothing is added to the accumulator and no
\* activation is left to process a later row
C26_LookupFailureAborts ==
    [][BeforeUnresolvedRow
        => /\ pc' = "idle"
           /\ frames' = <<>>
           /\ accumulator' = accumulator
           /\ Len(history') = Len(history) + 1
           /\ history'[Len(history')].err = ErrRecordNotFound
           /\ history'[Len(history')].data = EmptyData
           /\ history'[Len(history')].called
           /\ history'[Len(history')].formula_id = formulaID
           /\ caller = "http" => history'[Len(history')].status = 500]_vars

\* the call ended with the lookup error at a row that follows an accumulated row
\* and is followed by a row of the same formula
C26_Witness ==
    /\ Returned
    /\ Last.called
    /\ Last.err = ErrRecordNotFound
    /\ Last.status = 500
    /\ accumulator # EmptyMap
    /\ \E k \in 2..(Len(OwnRows(Last.formula_id)) - 1) :
          /\ OwnRows(Last.formula_id)[k].AromaChemicalID = Ptr(Deleted)
          /\ FGt(Grams(OwnRows(Last.formula_id)[k + 1]), Zero)

\* every row reachable from f has a positive amount and exactly one reference, every
\* formula reachable from f has rows, and f reaches no cycle
WellFormed(f) ==
    /\ ~CycleReachable(f)
    /\ \A g \in ReachableFrom(f) :
          /\ Len(OwnRows(g)) > 0
          /\ \A i \in 1..Len(OwnRows(g)) :
                LET r == OwnRows(g)[i]
                IN  /\ FGt(Grams(r), Zero)
                    /\ (r.AromaChemicalID = Nil) # (r.SubFormulaID = Nil)
                    /\ r.SubFormulaID # Nil => r.SubFormulaID[1] # 0

RECURSIVE SumBase(_, _), SumFinal(_, _)
SumBase(rows, i) ==
    IF i > Len(rows) THEN Zero ELSE FAdd(rows[i].BaseQuantity, SumBase(rows, i + 1))
SumFinal(rows, i) ==
    IF i > Len(rows) THEN Zero ELSE FAdd(rows[i].FinalQuantity, SumFinal(rows, i + 1))

\* the rows of a report carry the whole base batch and the whole target quantity
Conserved(h) ==
    /\ SumBase(h.data.Ingredients, 1) = h.data.BaseBatchQuantity
    /\ SumFinal(h.data.Ingredients, 1) = h.data.TargetQuantity

C28_CircularOnlyFromPathGuard ==
    /\ [](\A id \in DOMAIN totalStack : ~totalStack[id])
    /\ [][(Len(history') = Len(history) + 1
            /\ history'[Len(history')].err = errBatchCircularReference)
          => /\ pc = "accumulate"
             /\ frames # <<>>
             /\ frames[Len(frames)].idx = 0
             /\ Marked(traversal, frames[Len(frames)].formulaID)
             /\ totalsMemo' = totalsMemo
             /\ totalStack' = totalStack]_vars

\* CircularReference was returned after computeFormulaTotal had summed the rows of
\* the formulas of the cycle
C28_Witness ==
    /\ Returned
    /\ Last.called
    /\ Last.err = errBatchCircularReference
    /\ Cardinality(DOMAIN totalStack) >= 2
    /\ Cardinality({id \in DOMAIN reads : reads[id] = 1}) >= 2
    /\ \E id \in DOMAIN totalStack : OnCycle(id)

----------------------------------------------------------------------------
(* the stored graph of formulas under the editor, the JSON resource and FormulaDelete *)

\* no formula is reachable from itself through the stored sub-formula rows
Acyclic == \A f \in 1..MaxFormulaId : ~OnCycle(f)

\* the graph of sub-formula rows of a table
GraphOf(rows) ==
    [f \in 1..MaxFormulaId |->
        {rows[i].SubFormulaID[1] :
            i \in {j \in 1..Len(rows) : rows[j].FormulaID = f /\ IsSubRow(rows[j])}}]
RECURSIVE ReachableIn(_, _)
ReachableIn(graph, seen) ==
    LET more == seen \cup UNION {graph[f] : f \in seen \cap DOMAIN graph}
    IN  IF more = seen THEN seen ELSE ReachableIn(graph, more)
AcyclicRows(rows) ==
    \A f \in 1..MaxFormulaId : \A c \in GraphOf(rows)[f] : f \notin ReachableIn(GraphOf(rows), {c})

\* a stored row that names its owning formula as its sub-formula
NamesItsOwner(r) == r.SubFormulaID # Nil /\ r.SubFormulaID[1] = r.FormulaID

\* C22: after any sequence of creates and updates of composition rows through the JSON
\* resource and through the formula editor, no stored row has a sub-formula reference
\* equal to the id of the formula that owns the row
C22_NoRowNamesItsOwner ==
    editor.op = "editor" => \A i \in 1..Len(ingredients) : ~NamesItsOwner(ingredients[i])

\* C23: from an acyclic graph, any sequence of submissions to FormulaUpdate made one
\* after another (update, new_version, save_as) leaves the stored graph acyclic
C23_EditorKeepsGraphAcyclic ==
    (editor.op = "editor" /\ ~editor.resource) => Acyclic

\* every entry id of the submission that is not 0 is the id of a stored row of the
\* formula the submission edits
OwnEntries(form) ==
    \A k \in 1..Len(form.form) :
        form.form[k].entryID = 0 \/ form.form[k].entryID \in EntriesOf(form.id)

\* lemma: a submission whose entry ids are those of the edited formula's own rows
\* leaves an acyclic graph acyclic
OwnEntriesKeepGraphAcyclic ==
    (editor.op = "editor" /\ Acyclic) =>
        \A form \in Submissions(0..MaxRowId) :
            LET name == IF form.blank \/ ~HasKey(formulas, form.id) THEN <<32>>
                        ELSE formulas[form.id].Name
                req == formulaUpdateRead(form.id, name, form.action, form.form)
            IN  (OwnEntries(form) /\ req.writes) => AcyclicRows(formulaUpdateWrite(req).rows)

\* C29: from an acyclic graph, the stored graph stays acyclic under every interleaving
\* of two requests of FormulaUpdate on different formulas, each reading its snapshot,
\* checking for cycles against it and writing its rows later in a transaction
C29_RacingEditorsKeepGraphAcyclic ==
    editor.op = "race" => Acyclic

\* lemma: two requests of which the second read its snapshot after the first had
\* written leave the graph acyclic
OneAfterAnotherKeepsGraphAcyclic ==
    (editor.op = "race" /\ ~editor.overlapped) => Acyclic

\* a stored row names f as its sub-formula
Referenced(f) == \E i \in 1..Len(ingredients) : ingredients[i].SubFormulaID = Ptr(f)
\* a stored row is owned by f
Owning(f) == \E i \in 1..Len(ingredients) : ingredients[i].FormulaID = f

\* C30: FormulaDelete never removes a formula that a stored row names as its
\* sub-formula: that request is answered with the message of a formula in use and
\* deletes nothing; a delete that succeeds removes the formula and every row it owns;
\* so after any sequence of deletes no stored row names a deleted formula as its
\* sub-formula or as its owner
C30_DeleteKeepsStoreWhole ==
    /\ [][\A f \in DOMAIN formulas :
            /\ Referenced(f) =>
                  /\ f \in DOMAIN formulas'
                  /\ (editor'.reply # editor.reply /\ editor'.reply.id = f)
                        => editor'.reply.message = M_in_use
            /\ f \notin DOMAIN formulas' =>
                  /\ \A i \in 1..Len(ingredients') : ingredients'[i].FormulaID # f
                  /\ editor'.reply = [id |-> f, status |-> 200, message |-> M_deleted]]_vars
    /\ [][editor'.reply.message = M_in_use => UNCHANGED <<formulas, ingredients>>]_vars
    /\ [](\A d \in editor.deleted : d \notin DOMAIN formulas /\ ~Referenced(d) /\ ~Owning(d))

\* a formula was deleted and the delete of a formula in use was then refused
C30_Witness ==
    /\ editor.deleted # {}
    /\ editor.reply.message = M_in_use
    /\ Referenced(editor.reply.id)

====
